---- MODULE Spec2Model ----
(***************************************************************************)
(* A model of the political-conflict analysis engine: the two name         *)
(* normalisation pipelines, variant generation, weighted similarity,       *)
(* match finding, entity grouping, conflict aggregation and the AI         *)
(* validation stage with its retry loop.                                   *)
(*                                                                         *)
(* A string is a sequence of one-character strings.  Numbers that are      *)
(* floats in the program are fixed-point integers here: a weight w is      *)
(* held as One*w, a similarity or threshold t as One*t, an amount as a     *)
(* whole number.                                                           *)
(***************************************************************************)
EXTENDS Integers, Sequences, FiniteSets, TLC

(***************************************************************************)
(* Characters and the str / re primitives the pipelines use.               *)
(***************************************************************************)
UpperChars ==
  <<"A","B","C","D","E","F","G","H","I","J","K","L","M",
    "N","O","P","Q","R","S","T","U","V","W","X","Y","Z">>

LowerChars ==
  <<"a","b","c","d","e","f","g","h","i","j","k","l","m",
    "n","o","p","q","r","s","t","u","v","w","x","y","z">>

DigitChars == {"0","1","2","3","4","5","6","7","8","9"}

IsUpper(c) == c \in {UpperChars[i] : i \in 1..Len(UpperChars)}

IsLower(c) == c \in {LowerChars[i] : i \in 1..Len(LowerChars)}

IsDigit(c) == c \in DigitChars

\* \w
IsWord(c) == IsUpper(c) \/ IsLower(c) \/ IsDigit(c) \/ c = "_"

\* \s
IsSpace(c) == c \in {" ", "\t", "\n"}

LowerChar(c) ==
  IF IsUpper(c)
    THEN LowerChars[CHOOSE i \in 1..Len(UpperChars) : UpperChars[i] = c]
    ELSE c

\* str.lower()
Lower(s) == [i \in 1..Len(s) |-> LowerChar(s[i])]

RECURSIVE LStrip(_)
LStrip(s) ==
  IF s # <<>> /\ IsSpace(Head(s)) THEN LStrip(Tail(s)) ELSE s

RECURSIVE RStrip(_)
RStrip(s) ==
  IF s # <<>> /\ IsSpace(s[Len(s)]) THEN RStrip(SubSeq(s, 1, Len(s) - 1)) ELSE s

\* str.strip()
Strip(s) == LStrip(RStrip(s))

\* str.rstrip('.,;:')
RECURSIVE RStripPunct(_)
RStripPunct(s) ==
  IF s # <<>> /\ s[Len(s)] \in {".", ",", ";", ":"}
    THEN RStripPunct(SubSeq(s, 1, Len(s) - 1))
    ELSE s

\* lit occurs in s at index i (1-based)
StartsAt(s, lit, i) ==
  /\ i >= 1
  /\ i + Len(lit) - 1 <= Len(s)
  /\ \A k \in 1..Len(lit) : s[i + k - 1] = lit[k]

\* lit in s
Contains(s, lit) == \E i \in 1..(Len(s) + 1) : StartsAt(s, lit, i)

\* str.startswith
StartsWith(s, lit) == StartsAt(s, lit, 1)

\* the first index at or after from where sep occurs in s, or 0
NextOccurrence(s, sep, from) ==
  IF \E j \in from..Len(s) : StartsAt(s, sep, j)
    THEN CHOOSE j \in from..Len(s) :
           StartsAt(s, sep, j) /\ \A h \in from..(j - 1) : ~StartsAt(s, sep, h)
    ELSE 0

RECURSIVE SplitLitFrom(_, _, _)

\* the piece that starts at from, sep occurring next at index at, and the pieces after it
SplitLitAt(s, sep, from, at) ==
  IF at = 0 THEN <<SubSeq(s, from, Len(s))>>
  ELSE <<SubSeq(s, from, at - 1)>> \o SplitLitFrom(s, sep, at + Len(sep))

\* str.split(sep) for a non-empty separator: the pieces, left to right
SplitLitFrom(s, sep, from) == SplitLitAt(s, sep, from, NextOccurrence(s, sep, from))

SplitLit(s, sep) == SplitLitFrom(s, sep, 1)

\* sep.join(parts)
RECURSIVE Join(_, _)
Join(parts, sep) ==
  IF parts = <<>> THEN <<>>
  ELSE IF Len(parts) = 1 THEN parts[1]
  ELSE parts[1] \o sep \o Join(Tail(parts), sep)

\* str.replace(old, new)
ReplaceLit(s, old, new) == Join(SplitLit(s, old), new)

\* the indices where a maximal run of non-whitespace starts, left to right
WordStarts(s) ==
  SelectSeq([i \in 1..Len(s) |-> i],
            LAMBDA i : ~IsSpace(s[i]) /\ (i = 1 \/ IsSpace(s[i - 1])))

\* the index where the run of non-whitespace that starts at i ends
WordEnd(s, i) ==
  CHOOSE j \in i..Len(s) :
    /\ j = Len(s) \/ IsSpace(s[j + 1])
    /\ \A h \in i..j : ~IsSpace(s[h])

WordsAt(s, starts) == [k \in 1..Len(starts) |-> SubSeq(s, starts[k], WordEnd(s, starts[k]))]

\* str.split(): the maximal runs of non-whitespace
SplitWS(s) == WordsAt(s, WordStarts(s))

\* the indices re.sub(r'\s+', ' ', s) keeps: all but the whitespace that follows whitespace
CollapseKeeps(s) ==
  SelectSeq([i \in 1..Len(s) |-> i],
            LAMBDA i : ~(IsSpace(s[i]) /\ i > 1 /\ IsSpace(s[i - 1])))

CollapseAt(s, kept) ==
  [k \in 1..Len(kept) |-> IF IsSpace(s[kept[k]]) THEN " " ELSE s[kept[k]]]

\* re.sub(r'\s+', ' ', s)
CollapseWS(s) == CollapseAt(s, CollapseKeeps(s))

\* Below, CHOOSE y \in {F(v) : v \in {e}} : TRUE is F(e), with e computed before F is
\* entered, as a call computes its argument before it runs.

\* \b at offset i (between s[i] and s[i+1], 0 <= i <= Len(s))
Boundary(s, i) ==
  (i >= 1 /\ i <= Len(s) /\ IsWord(s[i])) # (i + 1 <= Len(s) /\ IsWord(s[i + 1]))

(***************************************************************************)
(* A regular expression \b a1 a2 ... an \b is a sequence of atoms:         *)
(*   [t |-> "lit", c |-> str]  the characters of str, one after another    *)
(*   [t |-> "opt", c |-> ch]   ch?  (greedy)                               *)
(*   [t |-> "digits"]          \d+  (greedy)                               *)
(* The offsets a match can end at are kept in the order in which the       *)
(* backtracking of Python's re tries them, so the first one that stands at *)
(* a word boundary is the end of the match re returns.                     *)
(***************************************************************************)
Lit(s) == <<[t |-> "lit", c |-> s]>>

Opt(ch) == <<[t |-> "opt", c |-> ch]>>

DigitsPlus == <<[t |-> "digits"]>>

ChEq(a, b, ic) == IF ic THEN LowerChar(a) = LowerChar(b) ELSE a = b

\* the number of digits that follow offset i
RECURSIVE DigitRun(_, _)
DigitRun(s, i) ==
  IF i + 1 <= Len(s) /\ IsDigit(s[i + 1]) THEN 1 + DigitRun(s, i + 1) ELSE 0

\* \d+ at offset i, n digits following: the longest run first
DigitEnds(i, n) == [j \in 1..n |-> i + n - j + 1]

\* the characters of lit follow offset i
LitAt(s, lit, i, ic) ==
  /\ i + Len(lit) <= Len(s)
  /\ \A k \in 1..Len(lit) : ChEq(s[i + k], lit[k], ic)

\* the offsets where atom a can end when it starts at offset i, in the order re tries them
AtomEnds(a, s, i, ic) ==
  IF a.t = "digits" THEN DigitEnds(i, DigitRun(s, i))
  ELSE IF a.t = "lit" THEN (IF LitAt(s, a.c, i, ic) THEN <<i + Len(a.c)>> ELSE <<>>)
  ELSE (IF i + 1 <= Len(s) /\ ChEq(s[i + 1], a.c, ic) THEN <<i + 1>> ELSE <<>>) \o <<i>>

RECURSIVE StepAll(_, _, _, _)
StepAll(a, s, offsets, ic) ==
  IF offsets = <<>> THEN <<>>
  ELSE AtomEnds(a, s, Head(offsets), ic) \o StepAll(a, s, Tail(offsets), ic)

\* the offsets where atoms k.. of pat can end, starting from the offsets given
RECURSIVE MatchEnds(_, _, _, _, _)
MatchEnds(pat, k, s, offsets, ic) ==
  IF k > Len(pat) THEN offsets
  ELSE MatchEnds(pat, k + 1, s, StepAll(pat[k], s, offsets, ic), ic)

FirstOr(seq, default) == IF seq = <<>> THEN default ELSE Head(seq)

\* the match of \b pat \b that starts at offset i, as its end offset, or -1
ReMatchAt(pat, s, i, ic) ==
  IF Boundary(s, i)
    THEN FirstOr(SelectSeq(MatchEnds(pat, 1, s, <<i>>, ic), LAMBDA e : Boundary(s, e)), -1)
    ELSE -1

\* for every offset of s, the end of the match that starts there, or -1
MatchTable(pat, s, ic) == [i \in 0..Len(s) |-> ReMatchAt(pat, s, i, ic)]

\* the leftmost offset at or after i where a match starts, or -1
NextStart(table, i, n) ==
  IF \E j \in i..n : table[j] # -1
    THEN CHOOSE j \in i..n : table[j] # -1 /\ \A h \in i..(j - 1) : table[h] = -1
    ELSE -1

\* re.search(pat, s) finds a match
ReSearch(pat, s, ic) == \E i \in 0..Len(s) : ReMatchAt(pat, s, i, ic) # -1

\* re.split(pat, s)[-1]: the text after the last match
RECURSIVE SplitLastFrom(_, _, _)
SplitLastFrom(table, s, i) ==
  IF NextStart(table, i, Len(s)) = -1 THEN SubSeq(s, i + 1, Len(s))
  ELSE SplitLastFrom(table, s, table[NextStart(table, i, Len(s))])

ReSplitLast(pat, s, ic) == SplitLastFrom(MatchTable(pat, s, ic), s, 0)

\* re.sub(pat, repl, s)
RECURSIVE SubFrom(_, _, _, _)
SubFrom(table, repl, s, i) ==
  IF NextStart(table, i, Len(s)) = -1 THEN SubSeq(s, i + 1, Len(s))
  ELSE SubSeq(s, i + 1, NextStart(table, i, Len(s))) \o repl
         \o SubFrom(table, repl, s, table[NextStart(table, i, Len(s))])

ReSub(pat, repl, s, ic) == SubFrom(MatchTable(pat, s, ic), repl, s, 0)

(***************************************************************************)
(* Python's ordering of str: by code point, a proper prefix first.         *)
(***************************************************************************)
\* code points 32..95 and 97..126 (the grave accent, 96, occurs in no name)
AsciiLow ==
  <<" ","!","\"","#","$","%","&","'","(",")","*","+",",","-",".","/","0","1","2","3","4","5","6","7","8","9",":",";","<","=",">","?","@","A","B","C","D","E","F","G","H","I","J","K","L","M","N","O","P","Q","R","S","T","U","V","W","X","Y","Z","[","\\","]","^","_">>

AsciiHigh ==
  <<"a","b","c","d","e","f","g","h","i","j","k","l","m","n","o","p","q","r","s","t","u","v","w","x","y","z","{","|","}","~">>

CharOrd(c) ==
  IF \E i \in 1..Len(AsciiLow) : AsciiLow[i] = c
    THEN 31 + (CHOOSE i \in 1..Len(AsciiLow) : AsciiLow[i] = c)
  ELSE IF \E i \in 1..Len(AsciiHigh) : AsciiHigh[i] = c
    THEN 96 + (CHOOSE i \in 1..Len(AsciiHigh) : AsciiHigh[i] = c)
  ELSE 128

RECURSIVE StrLess(_, _)
StrLess(a, b) ==
  IF b = <<>> THEN FALSE
  ELSE IF a = <<>> THEN TRUE
  ELSE IF CharOrd(Head(a)) # CharOrd(Head(b)) THEN CharOrd(Head(a)) < CharOrd(Head(b))
  ELSE StrLess(Tail(a), Tail(b))

(***************************************************************************)
(* EntityNormalizer (normalizers.py): the grouping pipeline.               *)
(***************************************************************************)
BusinessSuffixes ==
  {<<"i","n","c">>,
   <<"i","n","c",".">>,
   <<"i","n","c","o","r","p","o","r","a","t","e","d">>,
   <<"c","o","r","p">>,
   <<"c","o","r","p",".">>,
   <<"c","o","r","p","o","r","a","t","i","o","n">>,
   <<"c","o","m","p","a","n","y">>,
   <<"c","o">>,
   <<"c","o",".">>,
   <<"l","l","c">>,
   <<"l",".","l",".","c",".">>,
   <<"l","t","d">>,
   <<"l","t","d",".">>,
   <<"l","i","m","i","t","e","d">>,
   <<"l","p">>,
   <<"l",".","p",".">>,
   <<"l","l","p">>,
   <<"l",".","l",".","p",".">>,
   <<"p","l","l","c">>,
   <<"p",".","l",".","l",".","c",".">>,
   <<"e","n","t","e","r","p","r","i","s","e">>,
   <<"e","n","t","e","r","p","r","i","s","e","s">>,
   <<"g","r","o","u","p">>,
   <<"g","r","o","u","p","s">>,
   <<"s","e","r","v","i","c","e","s">>,
   <<"s","e","r","v","i","c","e">>,
   <<"s","o","l","u","t","i","o","n","s">>,
   <<"s","o","l","u","t","i","o","n">>,
   <<"s","y","s","t","e","m","s">>,
   <<"s","y","s","t","e","m">>,
   <<"a","s","s","o","c","i","a","t","e","s">>,
   <<"a","s","s","o","c","i","a","t","e">>,
   <<"p","a","r","t","n","e","r","s">>,
   <<"p","a","r","t","n","e","r">>,
   <<"h","o","l","d","i","n","g","s">>,
   <<"h","o","l","d","i","n","g">>,
   <<"i","n","t","e","r","n","a","t","i","o","n","a","l">>,
   <<"i","n","t","l">>}

StopWords ==
  {<<"t","h","e">>,
   <<"a">>,
   <<"a","n">>,
   <<"t","h","i","s">>,
   <<"t","h","a","t">>,
   <<"t","h","e","s","e">>,
   <<"t","h","o","s","e">>}

\* _dba_patterns, in list order
GroupDbaPatterns ==
  <<Lit(<<"d","o","i","n","g"," ","b","u","s","i","n","e","s","s"," ","a","s">>),
    Lit(<<"d">>) \o Opt(".") \o Lit(<<"b">>) \o Opt(".") \o Lit(<<"a">>) \o Opt("."),
    Lit(<<"a","k","a">>),
    Lit(<<"a","l","s","o"," ","k","n","o","w","n"," ","a","s">>),
    Lit(<<"o","p","e","r","a","t","i","n","g"," ","a","s">>),
    Lit(<<"t","r","a","d","i","n","g"," ","a","s">>)>>

GroupKeepChar(c) == IsWord(c) \/ IsSpace(c) \/ c \in {"&", "/", "-", "."}

_basic_clean(name) ==
  CHOOSE y \in {ReSub(Lit(<<"b","l","v","d">>), <<"b","o","u","l","e","v","a","r","d">>, rd, FALSE) :
    rd \in {ReSub(Lit(<<"r","d">>), <<"r","o","a","d">>, ave, FALSE) :
      ave \in {ReSub(Lit(<<"a","v","e">>), <<"a","v","e","n","u","e">>, st, FALSE) :
        st \in {ReSub(Lit(<<"s","t">>), <<"s","t","r","e","e","t">>, kept, FALSE) :
          kept \in {SelectSeq(collapsed, GroupKeepChar) :
            collapsed \in {CollapseWS(lowered) :
              lowered \in {Strip(Lower(name))}}}}}}} : TRUE

\* "if after_dba: return after_dba", else on to the next pattern
OrElse(after_dba, rest) == IF after_dba # <<>> THEN after_dba ELSE rest

RECURSIVE HandleDbaFrom(_, _)
HandleDbaFrom(name, k) ==
  IF k > Len(GroupDbaPatterns) THEN name
  ELSE OrElse(IF ReSearch(GroupDbaPatterns[k], name, TRUE)
                THEN Strip(ReSplitLast(GroupDbaPatterns[k], name, TRUE))
                ELSE <<>>,
              HandleDbaFrom(name, k + 1))

_handle_dba_patterns(name) == HandleDbaFrom(name, 1)

\* max(parts, key=len): the first part of maximal length
FirstLongest(parts) ==
  parts[CHOOSE i \in 1..Len(parts) :
          /\ \A j \in 1..Len(parts) : Len(parts[j]) <= Len(parts[i])
          /\ \A j \in 1..(i - 1) : Len(parts[j]) < Len(parts[i])]

_handle_slash_notation(name) ==
  IF Contains(name, <<"/">>)
    THEN LET raw   == SplitLit(name, <<"/">>)
             parts == [i \in 1..Len(raw) |-> Strip(raw[i])]
         IN IF Len(parts) > 1 THEN FirstLongest(parts) ELSE name
    ELSE name

NotBusinessSuffix(word) == Lower(RStripPunct(word)) \notin BusinessSuffixes

_remove_business_suffixes(name) ==
  LET filtered_words == SelectSeq(SplitWS(name), NotBusinessSuffix)
  IN IF filtered_words # <<>> THEN Join(filtered_words, <<" ">>) ELSE name

NotStopWord(word) == Lower(word) \notin StopWords

_remove_stop_words(name) ==
  LET filtered_words == SelectSeq(SplitWS(name), NotStopWord)
  IN IF filtered_words # <<>> THEN Join(filtered_words, <<" ">>) ELSE name

IsEdgePunct(c) == ~IsWord(c) /\ ~IsSpace(c)

\* re.sub(r'[^\w\s]+$', '', s)
RECURSIVE StripTrailingPunct(_)
StripTrailingPunct(s) ==
  IF s # <<>> /\ IsEdgePunct(s[Len(s)])
    THEN StripTrailingPunct(SubSeq(s, 1, Len(s) - 1))
    ELSE s

\* re.sub(r'^[^\w\s]+', '', s)
RECURSIVE StripLeadingPunct(_)
StripLeadingPunct(s) ==
  IF s # <<>> /\ IsEdgePunct(Head(s)) THEN StripLeadingPunct(Tail(s)) ELSE s

_final_cleanup(name) ==
  StripLeadingPunct(StripTrailingPunct(Strip(CollapseWS(name))))

normalize_entity_name(name) ==
  IF name = <<>> \/ Strip(name) = <<>> THEN <<>>
  ELSE CHOOSE y \in {_final_cleanup(without_stop_words) :
         without_stop_words \in {_remove_stop_words(without_suffixes) :
           without_suffixes \in {_remove_business_suffixes(longest_part) :
             longest_part \in {_handle_slash_notation(after_dba) :
               after_dba \in {_handle_dba_patterns(cleaned) :
                 cleaned \in {_basic_clean(name)}}}}}} : TRUE

\* re.search(r'\b\w\.\w\b', name)
HasAbbreviation(name) ==
  \E i \in 1..(Len(name) - 2) :
    /\ Boundary(name, i - 1)
    /\ IsWord(name[i])
    /\ name[i + 1] = "."
    /\ IsWord(name[i + 2])
    /\ Boundary(name, i + 2)

\* re.search(r'\d', name)
HasDigit(name) == \E i \in 1..Len(name) : IsDigit(name[i])

\* re.match(r'^[A-Z]\s+[A-Z]', name)
StartsWithInitials(name) ==
  /\ Len(name) >= 3
  /\ IsUpper(name[1])
  /\ \E j \in 3..Len(name) :
       /\ IsUpper(name[j])
       /\ \A k \in 2..(j - 1) : IsSpace(name[k])

\* ten times the heuristic score of _select_canonical_name
NameScore(name) ==
  Len(name)
    + (IF ~HasAbbreviation(name) THEN 100 ELSE 0)
    + (IF ~HasDigit(name) THEN 50 ELSE 0)
    + (IF ~StartsWithInitials(name) THEN 50 ELSE 0)

\* (score, name) tuples compared as Python compares them
TupleLess(score_a, a, score_b, b) ==
  \/ score_a < score_b
  \/ score_a = score_b /\ StrLess(a, b)

\* the scores compared alone, equal scores left in list order
ScoreOnlyLess(a, b) == NameScore(a) < NameScore(b)

ScoredLess(a, b) == TupleLess(NameScore(a), a, NameScore(b), b)

_select_canonical_name(names) ==
  IF names = <<>> THEN <<>>
  ELSE IF Len(names) = 1 THEN names[1]
  ELSE names[CHOOSE i \in 1..Len(names) :
               \A j \in 1..Len(names) : ~ScoredLess(names[i], names[j])]

Range(seq) == {seq[i] : i \in 1..Len(seq)}

\* normalized_entities[normalized] = ...: a new key goes last
AddKey(keys, normalized) ==
  IF normalized # <<>> /\ normalized \notin Range(keys) THEN Append(keys, normalized) ELSE keys

\* the keys of normalized_entities, in insertion order
RECURSIVE NormalizedKeys(_, _)
NormalizedKeys(entities, keys) ==
  IF entities = <<>> THEN keys
  ELSE NormalizedKeys(Tail(entities), AddKey(keys, normalize_entity_name(Head(entities))))

\* every name with a normal form filed under every key
FiledUnderAnyKey(normalized, key) == normalized # <<>>

\* "if normalized:" and the key of the dictionary
FiledUnder(normalized, key) == normalized # <<>> /\ normalized = key

\* whether group_related_entities files an entity under a key
GroupsUnder(entity, key) == FiledUnder(normalize_entity_name(entity), key)

\* EntityGroup(...)
NewGroup(original_names) ==
  [canonical_name   |-> _select_canonical_name(original_names),
   aliases          |-> Range(original_names),
   original_names   |-> original_names,
   confidence_score |-> 1]

\* the loop over normalized_entities.items()
GroupsOf(entities, keys) ==
  [g \in 1..Len(keys) |-> NewGroup(SelectSeq(entities, LAMBDA e : GroupsUnder(e, keys[g])))]

group_related_entities(entities) ==
  IF entities = <<>> THEN <<>>
  ELSE GroupsOf(entities, NormalizedKeys(entities, <<>>))

(***************************************************************************)
(* types.py: SimilarityConfig and ConflictMatch.  Weights, similarities    *)
(* and thresholds are fixed-point: One stands for 1.0 in a weight, and a   *)
(* similarity or threshold t is held as t * One.                           *)
(***************************************************************************)
One == 10000

\* 0.001
Tolerance == 10

Abs(x) == IF x < 0 THEN -x ELSE x

\* no check of the weights at all
NeverRejected(cfg) == FALSE

\* SimilarityConfig.__post_init__ raises ValueError
ConfigRejected(cfg) ==
  LET total_weight == cfg.wratio_weight + cfg.partial_ratio_weight
                        + cfg.token_sort_weight + cfg.token_set_weight
  IN Abs(total_weight - One) > Tolerance

\* the defaults of SimilarityConfig, which create_components passes too
DefaultConfig ==
  [wratio_weight        |-> 4000,
   partial_ratio_weight |-> 3000,
   token_sort_weight    |-> 2000,
   token_set_weight     |-> 1000]

\* ConflictMatch.__post_init__ raises ValueError
MatchRejected(beneficiary, contributor, similarity) ==
  \/ ~(0 <= similarity /\ similarity <= 100 * One)
  \/ Strip(beneficiary) = <<>>
  \/ Strip(contributor) = <<>>

(***************************************************************************)
(* FuzzyMatcher (matchers.py): the matching pipeline.                      *)
(***************************************************************************)
MatchDbaPatterns ==
  <<Lit(<<"d","o","i","n","g"," ","b","u","s","i","n","e","s","s"," ","a","s">>),
    Lit(<<"d">>) \o Opt(".") \o Lit(<<"b">>) \o Opt(".") \o Lit(<<"a">>) \o Opt("."),
    Lit(<<"a","k","a">>),
    Lit(<<"a","l","s","o"," ","k","n","o","w","n"," ","a","s">>)>>

\* union_noise_phrases, in list order
UnionNoisePhrases ==
  <<Lit(<<"i","n","t","e","r","n","a","t","i","o","n","a","l">>),
    Lit(<<"l","o","c","a","l"," ">>) \o DigitsPlus,
    Lit(<<"l","o","c","a","l">>),
    Lit(<<"s","m","a","l","l"," ","c","o","n","t","r","i","b","u","t","o","r"," ","c","o","m","m","i","t","t","e","e">>),
    Lit(<<"c","a","n","d","i","d","a","t","e"," ","p","a","c">>),
    Lit(<<"p","a","c">>),
    Lit(<<"c","o","m","m","i","t","t","e","e">>),
    DigitsPlus \o Lit(<<"r","n">>),
    Lit(<<"s","t","a","t","e">>),
    Lit(<<"r","e","f","u","s","e"," ","u","n","i","t">>),
    Lit(<<"h","e","a","l","t","h","c","a","r","e"," ","w","o","r","k","e","r","s"," ","w","e","s","t">>),
    Lit(<<"i","n","t","e","r","n","s"," ","a","n","d"," ","r","e","s","i","d","e","n","t"," ","p","h","y","s","i","c","i","a","n">>)>>

MatchKeepChar(c) == IsWord(c) \/ IsSpace(c) \/ c \in {"&", "/", "-"}

\* the loop over dba_patterns: the first pattern found decides, then break
RECURSIVE MatchDbaFrom(_, _)
MatchDbaFrom(normalized, k) ==
  IF k > Len(MatchDbaPatterns) THEN normalized
  ELSE IF ReSearch(MatchDbaPatterns[k], normalized, FALSE)
    THEN Strip(ReSplitLast(MatchDbaPatterns[k], normalized, FALSE))
    ELSE MatchDbaFrom(normalized, k + 1)

\* "Person of Company": keep the part after " of " when there are exactly two parts
KeepCompanyPart(normalized) ==
  IF Contains(normalized, <<" ","o","f"," ">>)
    THEN LET parts == SplitLit(normalized, <<" ","o","f"," ">>)
         IN IF Len(parts) = 2 THEN Strip(parts[2]) ELSE normalized
    ELSE normalized

\* the acronym left as it is
KeepSeiu(normalized) == normalized

ExpandSeiu(normalized) ==
  IF StartsWith(normalized, <<"s","e","i","u"," ">>)
    THEN ReplaceLit(normalized, <<"s","e","i","u"," ">>,
                    <<"s","e","r","v","i","c","e"," ","e","m","p","l","o","y","e","e","s"," ","i","n","t","e","r","n","a","t","i","o","n","a","l"," ","u","n","i","o","n"," ">>)
    ELSE normalized

RECURSIVE StripNoiseFrom(_, _)
StripNoiseFrom(normalized, k) ==
  IF k > Len(UnionNoisePhrases) THEN normalized
  ELSE CHOOSE y \in {StripNoiseFrom(stripped, k + 1) :
              stripped \in {ReSub(UnionNoisePhrases[k], <<>>, normalized, TRUE)}} : TRUE

StripUnionNoise(normalized) ==
  IF Contains(normalized, <<"u","n","i","o","n">>)
    THEN CHOOSE y \in {Strip(CollapseWS(stripped)) :
                        stripped \in {StripNoiseFrom(normalized, 1)}} : TRUE
    ELSE normalized

_normalize_entity_without_slash_handling(entity) ==
  IF entity = <<>> THEN <<>>
  ELSE CHOOSE y \in {StripUnionNoise(expanded) :
         expanded \in {ExpandSeiu(company) :
           company \in {KeepCompanyPart(after_dba) :
             after_dba \in {MatchDbaFrom(kept, 1) :
               kept \in {SelectSeq(Strip(Lower(entity)), MatchKeepChar)}}}}} : TRUE

_normalize_entity(entity) == _normalize_entity_without_slash_handling(entity)

\* a part's normal form appended even when the list already holds it
AddVariantUnchecked(variants, part, normalized_part) ==
  IF part # <<>> /\ normalized_part # <<>>
    THEN Append(variants, normalized_part)
    ELSE variants

\* "if normalized_part and normalized_part not in variants: variants.append(...)"
AddVariant(variants, part, normalized_part) ==
  IF part # <<>> /\ normalized_part # <<>> /\ normalized_part \notin Range(variants)
    THEN Append(variants, normalized_part)
    ELSE variants

AddPart(variants, part) ==
  CHOOSE y \in {AddVariant(variants, part, normalized_part) :
                 normalized_part \in {_normalize_entity_without_slash_handling(part)}} : TRUE

\* the variants the loop over the '/'-separated parts appends
RECURSIVE PartVariants(_, _)
PartVariants(parts, variants) ==
  IF parts = <<>> THEN variants
  ELSE CHOOSE y \in {PartVariants(Tail(parts), added) :
                      added \in {AddPart(variants, Strip(Head(parts)))}} : TRUE

\* "if standard_normalized: variants.append(standard_normalized)"
FirstVariant(standard_normalized) ==
  IF standard_normalized # <<>> THEN <<standard_normalized>> ELSE <<>>

\* "if '/' in entity": the parts are added
SlashVariants(entity, variants) ==
  IF Contains(entity, <<"/">>) THEN PartVariants(SplitLit(entity, <<"/">>), variants)
  ELSE variants

\* "return variants if variants else ['']"
OrBlank(variants) == IF variants # <<>> THEN variants ELSE << <<>> >>

_get_entity_variants(entity) ==
  IF entity = <<>> THEN << <<>> >>
  ELSE CHOOSE y \in {OrBlank(SlashVariants(entity, FirstVariant(standard_normalized))) :
                      standard_normalized \in {_normalize_entity(entity)}} : TRUE

(***************************************************************************)
(* rapidfuzz is a library outside the repository.  Its four metrics are    *)
(* an oracle: fz maps a pair of strings to the tuple                       *)
(* <<WRatio, partial_ratio, token_sort_ratio, token_set_ratio>>.           *)
(***************************************************************************)
\* the pair of strings calculate_similarity hands to rapidfuzz
FuzzArgs(entity1, entity2) == <<_normalize_entity(entity1), _normalize_entity(entity2)>>

WeightedScore(cfg, m) ==
  m[1] * cfg.wratio_weight + m[2] * cfg.partial_ratio_weight
    + m[3] * cfg.token_sort_weight + m[4] * cfg.token_set_weight

calculate_similarity(cfg, fz, entity1, entity2) ==
  IF entity1 = <<>> \/ entity2 = <<>> THEN 0
  ELSE WeightedScore(cfg, fz[FuzzArgs(entity1, entity2)])

\* the pairs of variants find_matches scores for one contributor
VariantPairs(beneficiary, contributor) ==
  {<<bv, cv>> : bv \in Range(_get_entity_variants(beneficiary)),
                cv \in Range(_get_entity_variants(contributor))}

SetMax(S) == CHOOSE x \in S : \A y \in S : y <= x

\* best_similarity after the two loops over the variants
BestSimilarity(cfg, fz, beneficiary, contributor) ==
  SetMax({0} \cup {calculate_similarity(cfg, fz, p[1], p[2]) :
                     p \in VariantPairs(beneficiary, contributor)})

\* every candidate recorded, whatever its score
AlwaysClears(best_similarity, threshold) == TRUE

\* "if best_similarity >= threshold"
ClearsThreshold(best_similarity, threshold) == best_similarity >= threshold

\* a match tagged with the other member of MatchType
NewEmployerMatch(beneficiary, contributor, similarity, politician) ==
  [beneficiary |-> beneficiary,
   contributor |-> contributor,
   similarity  |-> similarity,
   politician  |-> politician,
   match_type  |-> "employer"]

NewMatch(beneficiary, contributor, similarity, politician) ==
  [beneficiary |-> beneficiary,
   contributor |-> contributor,
   similarity  |-> similarity,
   match_type  |-> "name",
   politician  |-> politician]

\* the result of a call that raised
Raised == [raised |-> TRUE, value |-> <<>>]

Returned(v) == [raised |-> FALSE, value |-> v]

\* the body of the loop over contributors once best_similarity is known: the list with a
\* ConflictMatch appended, the list as it was, or the ValueError of ConflictMatch
ScoreContributor(matches, beneficiary, contributor, best_similarity, threshold, politician) ==
  IF ClearsThreshold(best_similarity, threshold)
    THEN IF MatchRejected(beneficiary, contributor, best_similarity)
           THEN Raised
           ELSE Returned(Append(matches,
                                NewMatch(beneficiary, contributor, best_similarity, politician)))
    ELSE Returned(matches)

\* the loop over contributors; acc is the list so far, or Raised
RECURSIVE FindMatchesFrom(_, _, _, _, _, _, _)
FindMatchesFrom(cfg, fz, beneficiary, contributors, threshold, politician, acc) ==
  IF acc.raised \/ contributors = <<>> THEN acc
  ELSE CHOOSE y \in
         {FindMatchesFrom(cfg, fz, beneficiary, Tail(contributors), threshold, politician, scored) :
            scored \in {ScoreContributor(acc.value, beneficiary, Head(contributors),
                                         best_similarity, threshold, politician) :
              best_similarity \in {BestSimilarity(cfg, fz, beneficiary, Head(contributors))}}} : TRUE

find_matches(cfg, fz, beneficiary, contributors, threshold, politician) ==
  FindMatchesFrom(cfg, fz, beneficiary, contributors, threshold, politician, Returned(<<>>))

\* the strings a call of find_matches hands to rapidfuzz
FuzzDomain(beneficiaries, contributors) ==
  UNION {{FuzzArgs(p[1], p[2]) : p \in {q \in VariantPairs(b, c) : q[1] # <<>> /\ q[2] # <<>>}} :
           b \in beneficiaries, c \in contributors}

(***************************************************************************)
(* ConflictAnalyzer (analyzers.py).  A minutes row is a record             *)
(* [Beneficiary, Vote, Outcome, Item, Politician]; a campaign finance row  *)
(* is [Contributor, Employer, Amount].  None is the empty string: the      *)
(* loader turns every empty cell into None, and the code only tests these  *)
(* fields for truth or compares them with non-empty names.  Dates and      *)
(* transaction types are copied through and left out.                      *)
(***************************************************************************)
None == <<>>

\* excluded_terms
ExcludedTerms ==
  {<<"c","i","t","y"," ","o","f">>,
   <<"c","o","u","n","t","y"," ","o","f">>,
   <<"c","o","l","l","e","g","e">>,
   <<"u","n","i","v","e","r","s","i","t","y">>}

\* the terms looked for in the name as written
ExcludeAsWritten(beneficiary) ==
  \E term \in ExcludedTerms : Contains(beneficiary, term)

\* should_exclude
ShouldExclude(beneficiary) ==
  \E term \in ExcludedTerms : Contains(Lower(beneficiary), term)

\* the set beneficiaries of _find_initial_matches
MatchBeneficiaries(minutes) ==
  {minutes[i].Beneficiary : i \in {j \in 1..Len(minutes) :
      minutes[j].Beneficiary # None /\ ~ShouldExclude(minutes[j].Beneficiary)}}

\* entities_to_check: contributor then employer of every row, duplicates kept
RECURSIVE EntitiesToCheck(_)
EntitiesToCheck(finance) ==
  IF finance = <<>> THEN <<>>
  ELSE LET row == Head(finance)
       IN (IF row.Contributor # None THEN <<row.Contributor>> ELSE <<>>)
            \o (IF row.Employer # None THEN <<row.Employer>> ELSE <<>>)
            \o EntitiesToCheck(Tail(finance))

_extract_politician_name(minutes) ==
  IF \E i \in 1..Len(minutes) : minutes[i].Politician # ""
    THEN minutes[CHOOSE i \in 1..Len(minutes) :
                   /\ minutes[i].Politician # ""
                   /\ \A j \in 1..(i - 1) : minutes[j].Politician = ""].Politician
    ELSE "Unknown"

\* the elements of a Python set S in iteration order, ord being the order of the run
SetToList(S, ord) == SelectSeq(ord, LAMBDA x : x \in S)

\* the orders in which the elements of S can come
Orders(S) ==
  {ord \in [1..Cardinality(S) -> S] : \A x \in S : \E i \in 1..Cardinality(S) : ord[i] = x}

\* matches.extend(beneficiary_matches)
Extend(matches, beneficiary_matches) ==
  IF beneficiary_matches.raised THEN Raised
  ELSE Returned(matches \o beneficiary_matches.value)

\* the loop over beneficiaries, in the order given; acc is the list so far, or Raised
RECURSIVE MatchEach(_, _, _, _, _, _, _)
MatchEach(cfg, fz, beneficiaries, entities_to_check, threshold, politician, acc) ==
  IF acc.raised \/ beneficiaries = <<>> THEN acc
  ELSE MatchEach(cfg, fz, Tail(beneficiaries), entities_to_check, threshold, politician,
         Extend(acc.value,
                find_matches(cfg, fz, Head(beneficiaries), entities_to_check, threshold,
                             politician)))

_find_initial_matches(cfg, fz, ord, minutes, finance, threshold) ==
  MatchEach(cfg, fz, SetToList(MatchBeneficiaries(minutes), ord), EntitiesToCheck(finance),
            threshold, _extract_politician_name(minutes), Returned(<<>>))

\* float('nan'), which float() makes of the cell 'nan': held as a number that no amount and
\* no sum reaches, and touched only by FloatLess, FloatAdd and equality
NaN == -(2 ^ 30)

\* a < b on floats: False whenever one of them is nan
FloatLess(a, b) == a # NaN /\ b # NaN /\ a < b

\* ContributionDetail.__post_init__ raises ValueError
ContributionRejected(row) == FloatLess(row.Amount, 0) \/ Strip(row.Contributor) = <<>>

\* the Contributor column only
RowMatchesName(row, contributor) == row.Contributor = contributor

\* the row is pulled for this contributor string
RowMatches(row, contributor) == row.Contributor = contributor \/ row.Employer = contributor

NewContribution(row) ==
  [name |-> row.Contributor, employer |-> row.Employer, amount |-> row.Amount]

\* the inner loop over campaign_finance_data for one contributor
RowsFor(finance, contributor) ==
  LET pulled == SelectSeq(finance,
                  LAMBDA row : RowMatches(row, contributor) /\ ~ContributionRejected(row))
  IN [i \in 1..Len(pulled) |-> NewContribution(pulled[i])]

RECURSIVE ContributionDetails(_, _)
ContributionDetails(contributors, finance) ==
  IF contributors = <<>> THEN <<>>
  ELSE RowsFor(finance, Head(contributors)) \o ContributionDetails(Tail(contributors), finance)

\* VoteType and VoteOutcome
VoteTypes == {"AYE", "NAY", "ABSTAIN", "ABSENT", "RECUSED"}

VoteOutcomes == {"PASSED", "FAILED"}

\* VoteType(...), VoteOutcome(...) or VoteDetail.__post_init__ raises ValueError
VoteRejected(row) ==
  \/ row.Vote \notin VoteTypes
  \/ row.Outcome \notin VoteOutcomes
  \/ row.Item = ""
  \/ Strip(row.Beneficiary) = <<>>

NewVote(row, beneficiary) ==
  [vote |-> row.Vote, item |-> row.Item, outcome |-> row.Outcome, beneficiary |-> beneficiary]

VotesFor(minutes, beneficiary) ==
  LET pulled == SelectSeq(minutes,
                  LAMBDA row : row.Beneficiary = beneficiary /\ ~VoteRejected(row))
  IN [i \in 1..Len(pulled) |-> NewVote(pulled[i], beneficiary)]

RECURSIVE VoteDetails(_, _)
VoteDetails(original_beneficiaries, minutes) ==
  IF original_beneficiaries = <<>> THEN <<>>
  ELSE VotesFor(minutes, Head(original_beneficiaries))
         \o VoteDetails(Tail(original_beneficiaries), minutes)

\* Amounts, totals and similarities are Python floats.  A float keeps a fixed number of
\* significant bits (53 in binary64) and every addition and division rounds its exact
\* result to the nearest float, a tie going to the even one.  The model keeps the rule with
\* a narrower significand, MantissaBits, wide enough for every similarity up to 100 * One:
\* a whole number below 2^MantissaBits is exact.
MantissaBits == 20

\* the spacing of the floats around x >= 0: the least power of two u with x < 2^MantissaBits * u
RECURSIVE Ulp(_, _)
Ulp(x, u) == IF x < (2 ^ MantissaBits) * u THEN u ELSE Ulp(x, 2 * u)

\* x >= 0 in units of u, rounded to nearest, ties to even
RoundTo(x, u) ==
  IF 2 * (x % u) > u \/ (2 * (x % u) = u /\ (x \div u) % 2 = 1)
    THEN ((x \div u) + 1) * u
    ELSE (x \div u) * u

\* the float nearest to x
RoundFloat(x) == IF x < 0 THEN -RoundTo(-x, Ulp(-x, 1)) ELSE RoundTo(x, Ulp(x, 1))

\* a + b in float arithmetic
FloatAdd(a, b) == IF a = NaN \/ b = NaN THEN NaN ELSE RoundFloat(a + b)

\* sum(detail.amount for detail in details): from the left, starting at 0
RECURSIVE SumAmounts(_)
SumAmounts(details) ==
  IF details = <<>> THEN 0
  ELSE FloatAdd(SumAmounts(SubSeq(details, 1, Len(details) - 1)), details[Len(details)].amount)

\* a / n in float arithmetic, n a positive whole number
FloatDiv(a, n) ==
  IF a = NaN THEN NaN
  ELSE IF a < 0 THEN -(RoundTo(-a, n * Ulp((-a) \div n, 1)) \div n)
  ELSE RoundTo(a, n * Ulp(a \div n, 1)) \div n

\* sum(similarities): from the left, starting at 0
RECURSIVE SumSimilarities(_)
SumSimilarities(matches) ==
  IF matches = <<>> THEN 0
  ELSE FloatAdd(SumSimilarities(SubSeq(matches, 1, Len(matches) - 1)),
                matches[Len(matches)].similarity)

SetMin(S) == CHOOSE x \in S : \A y \in S : x <= y

\* employer_groups of _create_contributor_summary: <<employer, number of names>>, keys in
\* insertion order, a missing employer filed under "Individual" (None here)
RECURSIVE EmployerKeys(_, _)
EmployerKeys(details, seen) ==
  IF details = <<>> THEN <<>>
  ELSE IF Head(details).employer \in seen
    THEN EmployerKeys(Tail(details), seen)
    ELSE <<Head(details).employer>>
           \o EmployerKeys(Tail(details), seen \cup {Head(details).employer})

_create_contributor_summary(contributors, contribution_details) ==
  IF contributors = <<>> THEN [single |-> None, parts |-> <<>>]
  ELSE IF Len(contributors) = 1 THEN [single |-> contributors[1], parts |-> <<>>]
  ELSE LET keys == EmployerKeys(contribution_details, {})
       IN [single |-> None,
           parts  |-> [k \in 1..Len(keys) |->
                         <<keys[k],
                           Len(SelectSeq(contribution_details,
                                         LAMBDA d : d.employer = keys[k]))>>]]

\* the amount of the first detail only
FirstAmount(contribution_details) ==
  IF contribution_details = <<>> THEN 0 ELSE Head(contribution_details).amount

\* total_contributions = sum(detail.amount for detail in contribution_details)
TotalContributions(contribution_details) == SumAmounts(contribution_details)

\* contribution_count = len(contribution_details)
ContributionCount(contribution_details) == Len(contribution_details)

\* AggregatedConflict.__post_init__ raises ValueError
AggregateRejected(total_contributions, avg) ==
  \/ FloatLess(total_contributions, 0)
  \/ ~(0 <= avg /\ avg <= 100 * One)

_create_aggregated_conflict(canonical_beneficiary, matches, minutes, finance, ordB, ordC) ==
  LET original_beneficiaries == SetToList({matches[i].beneficiary : i \in 1..Len(matches)}, ordB)
      contributors           == SetToList({matches[i].contributor : i \in 1..Len(matches)}, ordC)
      contribution_details   == ContributionDetails(contributors, finance)
      vote_details           == VoteDetails(original_beneficiaries, minutes)
      similarities           == {matches[i].similarity : i \in 1..Len(matches)}
  IN [beneficiary            |-> canonical_beneficiary,
      original_beneficiaries |-> original_beneficiaries,
      contributors           |-> contributors,
      contributor_summary    |-> _create_contributor_summary(contributors, contribution_details),
      total_contributions    |-> TotalContributions(contribution_details),
      contribution_count     |-> ContributionCount(contribution_details),
      vote_count             |-> Len(vote_details),
      contribution_details   |-> contribution_details,
      vote_details           |-> vote_details,
      match_types            |-> {matches[i].match_type : i \in 1..Len(matches)},
      avg_similarity         |-> FloatDiv(SumSimilarities(matches), Len(matches)),
      max_similarity         |-> SetMax(similarities),
      min_similarity         |-> SetMin(similarities),
      politician             |-> matches[1].politician]

\* beneficiary_to_canonical.get(beneficiary, beneficiary)
CanonicalOf(entity_groups, beneficiary) ==
  IF \E g \in 1..Len(entity_groups) : beneficiary \in Range(entity_groups[g].original_names)
    THEN entity_groups[CHOOSE g \in 1..Len(entity_groups) :
           /\ beneficiary \in Range(entity_groups[g].original_names)
           /\ \A h \in (g + 1)..Len(entity_groups) :
                beneficiary \notin Range(entity_groups[h].original_names)].canonical_name
    ELSE beneficiary

\* the keys of canonical_groups, in insertion order
RECURSIVE CanonicalKeys(_, _, _)
CanonicalKeys(entity_groups, matches, keys) ==
  IF matches = <<>> THEN keys
  ELSE CanonicalKeys(entity_groups, Tail(matches),
         IF CanonicalOf(entity_groups, Head(matches).beneficiary) \in Range(keys)
           THEN keys
           ELSE Append(keys, CanonicalOf(entity_groups, Head(matches).beneficiary)))

\* only the matches whose beneficiary is written as the canonical name
MatchesNamed(entity_groups, matches, canonical_name) ==
  SelectSeq(matches, LAMBDA m : m.beneficiary = canonical_name)

\* canonical_groups[canonical_name]
MatchesOf(entity_groups, matches, canonical_name) ==
  SelectSeq(matches, LAMBDA m : CanonicalOf(entity_groups, m.beneficiary) = canonical_name)

\* the loop over canonical_groups.items()
ConflictsOf(entity_groups, keys, matches, minutes, finance, ordB, ordC) ==
  [k \in 1..Len(keys) |->
    _create_aggregated_conflict(keys[k], MatchesOf(entity_groups, matches, keys[k]),
                                minutes, finance, ordB, ordC)]

\* the list, or the ValueError of an AggregatedConflict
Checked(conflicts) ==
  IF \E k \in 1..Len(conflicts) :
       AggregateRejected(conflicts[k].total_contributions, conflicts[k].avg_similarity)
    THEN Raised
    ELSE Returned(conflicts)

AggregateGroups(entity_groups, matches, minutes, finance, ordB, ordC) ==
  Checked(ConflictsOf(entity_groups, CanonicalKeys(entity_groups, matches, <<>>),
                      matches, minutes, finance, ordB, ordC))

_aggregate_conflicts(matches, minutes, finance, ordB, ordC) ==
  IF matches = <<>> THEN Returned(<<>>)
  ELSE AggregateGroups(group_related_entities([i \in 1..Len(matches) |-> matches[i].beneficiary]),
                       matches, minutes, finance, ordB, ordC)

(***************************************************************************)
(* ClaudeValidator (validators.py).  A response of the API is a record     *)
(* saying what _parse_validation_response finds in the text:               *)
(*   json        "none" (no braces), "invalid" (json.loads fails), "ok"    *)
(*   fields      all three required fields are present                     *)
(*   is_genuine  the field's value, or "other" when it is no boolean       *)
(*   confidence  the field's value                                         *)
(*   reasoning   the field is a non-empty string                           *)
(* A verdict is the tuple validate_conflict returns, its reasoning cut     *)
(* down to where the text comes from.                                      *)
(***************************************************************************)
ConfidenceLevels == {"high", "medium", "low"}

\* a failed validation counted against the conflict
FailClosed ==
  [is_genuine |-> FALSE, confidence |-> "low", reasoning |-> "Validation failed"]

\* the verdict validate_conflict returns when anything raised
FailOpen ==
  [is_genuine |-> TRUE, confidence |-> "low", reasoning |-> "Validation failed"]

\* the default _parse_validation_response returns on a parsing failure
ParseDefault ==
  [is_genuine |-> TRUE, confidence |-> "low", reasoning |-> "Failed to parse AI response"]

ParseFails(response) ==
  \/ response.json # "ok"
  \/ ~response.fields
  \/ response.is_genuine \notin {"true", "false"}
  \/ response.confidence \notin ConfidenceLevels
  \/ ~response.reasoning

_parse_validation_response(response) ==
  IF ParseFails(response) THEN ParseDefault
  ELSE [is_genuine |-> response.is_genuine = "true",
        confidence |-> response.confidence,
        reasoning  |-> "given"]

\* no attempt is the last one
NeverLast(attempt, retries) == FALSE

\* the attempt of _make_api_call that re-raises
LastAttempt(attempt, retries) == attempt = retries - 1

\* every conflict kept, whatever its verdict
KeepEvery(conflicts, validation_results) == conflicts

\* _validate_conflicts: zip the conflicts with the verdicts and keep the genuine ones
KeepGenuine(conflicts, validation_results) ==
  LET n    == IF Len(conflicts) < Len(validation_results)
                THEN Len(conflicts) ELSE Len(validation_results)
      kept == SelectSeq([i \in 1..n |-> i], LAMBDA i : validation_results[i].is_genuine)
  IN [k \in 1..Len(kept) |-> conflicts[kept[k]]]

\* the total of the first conflict alone
FirstTotal(conflicts) ==
  IF conflicts = <<>> THEN 0 ELSE conflicts[1].total_contributions

\* sum(conflict.total_contributions for conflict in validated_conflicts)
RECURSIVE SumTotals(_)
SumTotals(conflicts) ==
  IF conflicts = <<>> THEN 0
  ELSE FloatAdd(SumTotals(SubSeq(conflicts, 1, Len(conflicts) - 1)),
                conflicts[Len(conflicts)].total_contributions)

\* AnalysisResult.__post_init__ raises ValueError
ResultRejected(r) ==
  r.total_conflicts # Len(r.conflicts) \/ FloatLess(r.total_contribution_amount, 0)

NewResult(minutes, validated_conflicts, thr) ==
  [politician                |-> _extract_politician_name(minutes),
   conflicts                 |-> validated_conflicts,
   total_conflicts           |-> Len(validated_conflicts),
   total_contribution_amount |-> SumTotals(validated_conflicts),
   threshold_used            |-> thr]

(***************************************************************************)
(* The names and inputs the model draws from.                              *)
(***************************************************************************)
Acme == <<"A","c","m","e">>

AcmeInc == <<"A","c","m","e"," ","I","n","c">>

AcmeZed == <<"A","c","m","e","/","Z","e","d">>

Zed == <<"Z","e","d">>

Dash == <<"-">>

CityOfRio == <<"C","i","t","y"," ","o","f"," ","R","i","o">>

RioCollege == <<"R","i","o"," ","C","o","l","l","e","g","e">>

\* lengths of the input sequences
MaxEntities == 3

MaxMinutesRows == 2

MaxFinanceRows == 1

MaxAggMinutesRows == 1

MaxAggFinanceRows == 2

MaxConflicts == 2

MaxCandidates == 2

MaxMatches == 2

SeqsUpTo(S, n) == UNION {[1..k -> S] : k \in 0..n}

\* APIConfig.max_retries
DefaultMaxRetries == 3

RetryChoices == {0, 1, DefaultMaxRetries}

\* --threshold values, as threshold * One: below the range, the default 85.0, above the range
ThresholdChoices == {-10 * One, 85 * One, 150 * One}

\* answers of rapidfuzz: <<WRatio, partial_ratio, token_sort_ratio, token_set_ratio>>
MetricChoices == {<<0, 0, 0, 0>>, <<100, 100, 100, 100>>}

MinutesRow(b, v, o) ==
  [Beneficiary |-> b, Vote |-> v, Outcome |-> o, Item |-> "item", Politician |-> "Cervantes"]

FinanceRow(c, e, a) == [Contributor |-> c, Employer |-> e, Amount |-> a]

\* rows of the whole run
MinutesRowChoices == {MinutesRow(b, "AYE", "PASSED") : b \in {Acme, AcmeInc, CityOfRio}}

FinanceRowChoices == {FinanceRow(c, e, 10) : c \in {Acme, Zed}, e \in {None, Acme}}

\* responses of the API
Response(j, f, g, c, r) ==
  [json |-> j, fields |-> f, is_genuine |-> g, confidence |-> c, reasoning |-> r]

ResponseChoices ==
  {Response("ok", TRUE, "true", "high", TRUE),
   Response("ok", TRUE, "false", "medium", TRUE),
   Response("none", FALSE, "other", "", FALSE),
   Response("invalid", FALSE, "other", "", FALSE),
   Response("ok", FALSE, "false", "high", TRUE),
   Response("ok", TRUE, "other", "high", TRUE),
   Response("ok", TRUE, "false", "certain", TRUE),
   Response("ok", TRUE, "false", "high", FALSE)}

(***************************************************************************)
(* The state.                                                              *)
(***************************************************************************)
VARIABLES
  pc,                     \* where the run, or the call, is
  config,                 \* FuzzyMatcher.config
  max_retries,            \* ClaudeValidator.config.max_retries
  threshold,              \* the threshold analyze_conflicts was given
  validate_with_ai,
  minutes_data,
  campaign_finance_data,
  fuzz,                   \* what rapidfuzz answers in this run
  initial_matches,
  aggregated_conflicts,
  attempt,                \* the loop variable of _make_api_call
  api_log,                \* per validated conflict, what each API call did
  validation_results,     \* the list results of validate_conflicts_batch
  validated_conflicts,
  result,                 \* the AnalysisResult
  args,                   \* the arguments of a single call
  ret                     \* what the call returned

vars ==
  <<pc, config, max_retries, threshold, validate_with_ai, minutes_data,
    campaign_finance_data, fuzz, initial_matches, aggregated_conflicts, attempt,
    api_log, validation_results, validated_conflicts, result, args, ret>>

dataVars == <<minutes_data, campaign_finance_data, threshold, validate_with_ai>>

componentVars == <<config, max_retries>>

validationVars == <<attempt, api_log, validation_results>>

callVars == <<args, ret>>

NoFuzz == [p \in {} |-> <<0, 0, 0, 0>>]

\* everything but pc, config, max_retries and args
Blank ==
  /\ threshold = 0
  /\ validate_with_ai = FALSE
  /\ minutes_data = <<>>
  /\ campaign_finance_data = <<>>
  /\ fuzz = NoFuzz
  /\ initial_matches = <<>>
  /\ aggregated_conflicts = <<>>
  /\ attempt = 0
  /\ api_log = <<>>
  /\ validation_results = <<>>
  /\ validated_conflicts = <<>>
  /\ result = <<>>
  /\ ret = <<>>

(***************************************************************************)
(* analyze_conflicts, as main runs it: create_components, then the stages. *)
(***************************************************************************)
Init ==
  /\ pc = "start"
  /\ config = DefaultConfig
  /\ max_retries = DefaultMaxRetries
  /\ args = <<>>
  /\ Blank

\* load_minutes_data and load_campaign_finance_data
LoadData ==
  /\ pc = "start"
  /\ minutes_data' \in SeqsUpTo(MinutesRowChoices, MaxMinutesRows)
  /\ campaign_finance_data' \in SeqsUpTo(FinanceRowChoices, MaxFinanceRows)
  /\ threshold' \in ThresholdChoices
  /\ validate_with_ai' \in BOOLEAN
  /\ pc' = "loaded"
  /\ UNCHANGED <<componentVars, fuzz, initial_matches, aggregated_conflicts,
                 validationVars, validated_conflicts, result, callVars>>

FindInitialMatches ==
  /\ pc = "loaded"
  /\ \E ord \in Orders(MatchBeneficiaries(minutes_data)) :
     \E fz \in [FuzzDomain(MatchBeneficiaries(minutes_data),
                           Range(EntitiesToCheck(campaign_finance_data))) -> MetricChoices] :
     \E r \in {_find_initial_matches(config, fz, ord, minutes_data,
                                      campaign_finance_data, threshold)} :
          /\ fuzz' = fz
          /\ initial_matches' = r.value
          /\ pc' = IF r.raised THEN "failed" ELSE "matched"
  /\ UNCHANGED <<componentVars, dataVars, aggregated_conflicts, validationVars,
                 validated_conflicts, result, callVars>>

AggregateConflicts ==
  /\ pc = "matched"
  /\ \E ordB \in Orders({initial_matches[i].beneficiary : i \in 1..Len(initial_matches)}) :
     \E ordC \in Orders({initial_matches[i].contributor : i \in 1..Len(initial_matches)}) :
     \E r \in {_aggregate_conflicts(initial_matches, minutes_data, campaign_finance_data,
                                     ordB, ordC)} :
          /\ aggregated_conflicts' = r.value
          /\ pc' = IF r.raised THEN "failed" ELSE "aggregated"
  /\ UNCHANGED <<componentVars, dataVars, fuzz, initial_matches, validationVars,
                 validated_conflicts, result, callVars>>

\* the validator called whatever the flag and the list
ValidationAlways == TRUE

\* "if validate_with_ai and aggregated_conflicts"
ValidationWanted == validate_with_ai /\ aggregated_conflicts # <<>>

StartValidation ==
  /\ pc = "aggregated"
  /\ ValidationWanted
  /\ pc' = "validating"
  /\ attempt' = 0
  /\ api_log' = << <<>> >>
  /\ validation_results' = <<>>
  /\ UNCHANGED <<componentVars, dataVars, fuzz, initial_matches, aggregated_conflicts,
                 validated_conflicts, result, callVars>>

SkipValidation ==
  /\ pc = "aggregated"
  /\ ~ValidationWanted
  /\ validated_conflicts' = aggregated_conflicts
  /\ pc' = "validated"
  /\ UNCHANGED <<componentVars, dataVars, fuzz, initial_matches, aggregated_conflicts,
                 validationVars, result, callVars>>

\* what one call of client.messages.create did
Raises == [raised |-> TRUE]

Answers(response) == [raised |-> FALSE, response |-> response]

\* validate_conflict has returned verdict v for the current conflict
NextConflict(v, log) ==
  /\ validation_results' = Append(validation_results, v)
  /\ attempt' = 0
  /\ api_log' = IF Len(validation_results) + 1 < Len(aggregated_conflicts)
                  THEN Append(log, <<>>)
                  ELSE log
  /\ pc' = IF Len(validation_results) + 1 < Len(aggregated_conflicts)
             THEN "validating"
             ELSE "batch_done"

Logged(event) == [api_log EXCEPT ![Len(api_log)] = Append(@, event)]

\* range(max_retries) is empty: "All API call attempts failed"
NoAttempt ==
  /\ pc = "validating"
  /\ max_retries <= 0
  /\ NextConflict(FailOpen, api_log)
  /\ UNCHANGED <<componentVars, dataVars, fuzz, initial_matches, aggregated_conflicts,
                 validated_conflicts, result, callVars>>

\* one attempt of _make_api_call raises (an API error, a timeout or a refusal)
ApiCallFails ==
  /\ pc = "validating"
  /\ attempt < max_retries
  /\ IF LastAttempt(attempt, max_retries)
       THEN NextConflict(FailOpen, Logged(Raises))
       ELSE /\ attempt' = attempt + 1
            /\ api_log' = Logged(Raises)
            /\ UNCHANGED <<pc, validation_results>>
  /\ UNCHANGED <<componentVars, dataVars, fuzz, initial_matches, aggregated_conflicts,
                 validated_conflicts, result, callVars>>

\* one attempt of _make_api_call returns the response text
ApiCallReturns ==
  /\ pc = "validating"
  /\ attempt < max_retries
  /\ \E response \in ResponseChoices :
       NextConflict(_parse_validation_response(response), Logged(Answers(response)))
  /\ UNCHANGED <<componentVars, dataVars, fuzz, initial_matches, aggregated_conflicts,
                 validated_conflicts, result, callVars>>

\* the rest of _validate_conflicts
FilterConflicts ==
  /\ pc = "batch_done"
  /\ validated_conflicts' = KeepGenuine(aggregated_conflicts, validation_results)
  /\ pc' = "validated"
  /\ UNCHANGED <<componentVars, dataVars, fuzz, initial_matches, aggregated_conflicts,
                 validationVars, result, callVars>>

CreateResult ==
  /\ pc = "validated"
  /\ LET r == NewResult(minutes_data, validated_conflicts, threshold)
     IN /\ result' = r
        /\ pc' = IF ResultRejected(r) THEN "failed" ELSE "done"
  /\ UNCHANGED <<componentVars, dataVars, fuzz, initial_matches, aggregated_conflicts,
                 validationVars, validated_conflicts, callVars>>

Next ==
  \/ LoadData
  \/ FindInitialMatches
  \/ AggregateConflicts
  \/ StartValidation
  \/ SkipValidation
  \/ ApiCallFails
  \/ ApiCallReturns
  \/ FilterConflicts
  \/ CreateResult

Spec == Init /\ [][Next]_vars

(***************************************************************************)
(* EntityNormalizer.group_related_entities called on its own.              *)
(***************************************************************************)
GroupNames == {Acme, AcmeInc, AcmeZed, Zed, Dash}

InitGroup ==
  /\ pc = "group_call"
  /\ config = DefaultConfig
  /\ max_retries = DefaultMaxRetries
  /\ args \in SeqsUpTo(GroupNames, MaxEntities)
  /\ Blank

GroupRelatedEntities ==
  /\ pc = "group_call"
  /\ ret' = group_related_entities(args)
  /\ pc' = "group_done"
  /\ UNCHANGED <<componentVars, dataVars, fuzz, initial_matches, aggregated_conflicts,
                 validationVars, validated_conflicts, result, args>>

\* the same call made a second time; result keeps what the first call returned
GroupRelatedEntitiesAgain ==
  /\ pc = "group_done"
  /\ result' = ret
  /\ ret' = group_related_entities(args)
  /\ pc' = "group_redone"
  /\ UNCHANGED <<componentVars, dataVars, fuzz, initial_matches, aggregated_conflicts,
                 validationVars, validated_conflicts, args>>

NextGroup ==
  \/ GroupRelatedEntities
  \/ GroupRelatedEntitiesAgain

SpecGroup == InitGroup /\ [][NextGroup]_vars

\* how many times x occurs in seq
Count(seq, x) == Cardinality({i \in 1..Len(seq) : seq[i] = x})

\* how many times x occurs in the original_names of the groups, taken together
RECURSIVE GroupedCount(_, _)
GroupedCount(groups, x) ==
  IF groups = <<>> THEN 0
  ELSE Count(Head(groups).original_names, x) + GroupedCount(Tail(groups), x)

\* the groups that hold x
GroupsHolding(groups, x) ==
  {g \in 1..Len(groups) : x \in Range(groups[g].original_names)}

\* C1 as the spec states it: the original_names of the returned groups, taken together as
\* a multiset, are the input sequence, and every input name is in exactly one group.
GroupingIsPartition ==
  pc = "group_done" =>
    \A x \in GroupNames :
      /\ GroupedCount(ret, x) = Count(args, x)
      /\ x \in Range(args) => Cardinality(GroupsHolding(ret, x)) = 1

\* C1, amended: the original_names of the returned groups, taken together as a multiset,
\* are the input names whose normal form (normalize_entity_name) is not empty, each in
\* exactly one group; a name whose normal form is empty is in no group.
GroupingPartitionsNormalizable ==
  pc = "group_done" =>
    \A x \in GroupNames :
      IF normalize_entity_name(x) # <<>>
        THEN /\ GroupedCount(ret, x) = Count(args, x)
             /\ x \in Range(args) => Cardinality(GroupsHolding(ret, x)) = 1
        ELSE GroupedCount(ret, x) = 0

\* a call that groups some names and drops one whose normal form is empty
GroupingDropsName ==
  /\ pc = "group_done"
  /\ \E i \in 1..Len(args) : normalize_entity_name(args[i]) = <<>>
  /\ \E g \in 1..Len(ret) : Len(ret[g].original_names) >= 2

(***************************************************************************)
(* SimilarityConfig and FuzzyMatcher on their own: a config is built, and  *)
(* a matcher that holds an accepted config scores a pair or finds matches. *)
(***************************************************************************)
BlankName == <<" ">>

Config(w, p, so, se) ==
  [wratio_weight |-> w, partial_ratio_weight |-> p, token_sort_weight |-> so,
   token_set_weight |-> se]

\* the weights a caller passes to SimilarityConfig
ConfigChoices ==
  {Config(w, p, so, se) : w \in {4000, 15000}, p \in {3000, -5000}, so \in {2000, 0},
                          se \in {1000, 1005, 1020, 0}}

ScoreNames == {<<>>, Acme, Zed}

ScoreMetricChoices == {<<w, p, so, se>> : w \in {0, 100}, p \in {0, 100}, so \in {0, 100}, se \in {0, 100}}

FindBeneficiaries == {Acme, AcmeZed, BlankName}

FindCandidates == {Acme, BlankName}

FindThresholdChoices == ThresholdChoices \cup {0}

FindMetricChoices == {<<0, 0, 0, 0>>, <<100, 100, 100, 100>>, <<0, 100, 0, 0>>}

InitMatch ==
  /\ pc = "construct"
  /\ config = DefaultConfig
  /\ max_retries = DefaultMaxRetries
  /\ args = <<>>
  /\ Blank

\* SimilarityConfig(...), then FuzzyMatcher(config) when the config exists
ConstructConfig ==
  /\ pc = "construct"
  /\ \E cfg \in ConfigChoices :
       /\ args' = [cfg |-> cfg]
       /\ IF ConfigRejected(cfg)
            THEN pc' = "config_rejected" /\ UNCHANGED config
            ELSE pc' = "matcher" /\ config' = cfg
  /\ UNCHANGED <<max_retries, dataVars, fuzz, initial_matches, aggregated_conflicts,
                 validationVars, validated_conflicts, result, ret>>

CalculateSimilarity ==
  /\ pc = "matcher"
  /\ \E entity1 \in ScoreNames, entity2 \in ScoreNames, m \in ScoreMetricChoices :
       /\ args' = [entity1 |-> entity1, entity2 |-> entity2]
       /\ fuzz' = [p \in {FuzzArgs(entity1, entity2)} |-> m]
       /\ ret' = calculate_similarity(config, fuzz', entity1, entity2)
  /\ pc' = "scored"
  /\ UNCHANGED <<componentVars, dataVars, initial_matches, aggregated_conflicts,
                 validationVars, validated_conflicts, result>>

FindMatches ==
  /\ pc = "matcher"
  /\ \E beneficiary \in FindBeneficiaries :
     \E contributors \in SeqsUpTo(FindCandidates, MaxCandidates) :
     \E fz \in [FuzzDomain({beneficiary}, Range(contributors)) -> FindMetricChoices] :
       /\ args' = [beneficiary |-> beneficiary, contributors |-> contributors]
       /\ fuzz' = fz
       /\ threshold' \in FindThresholdChoices
       /\ ret' = find_matches(config, fz, beneficiary, contributors, threshold', "Cervantes")
  /\ pc' = "found"
  /\ UNCHANGED <<componentVars, validate_with_ai, minutes_data, campaign_finance_data,
                 initial_matches, aggregated_conflicts, validationVars, validated_conflicts,
                 result>>

NextMatch ==
  \/ ConstructConfig
  \/ CalculateSimilarity
  \/ FindMatches

SpecMatch == InitMatch /\ [][NextMatch]_vars

WeightSum(cfg) ==
  cfg.wratio_weight + cfg.partial_ratio_weight + cfg.token_sort_weight + cfg.token_set_weight

\* C3: every Match find_matches returns has a similarity that is at least the threshold
\* passed in and lies in [0, 100], and a beneficiary and a contributor that are not empty.
MatchesRespectThreshold ==
  pc = "found" /\ ~ret.raised =>
    \A i \in 1..Len(ret.value) :
      /\ ret.value[i].similarity >= threshold
      /\ 0 <= ret.value[i].similarity
      /\ ret.value[i].similarity <= 100 * One
      /\ ret.value[i].beneficiary # <<>>
      /\ ret.value[i].contributor # <<>>

\* find_matches has returned a Match, and has passed over a candidate below the threshold
MatchReturned ==
  /\ pc = "found"
  /\ ~ret.raised
  /\ Len(ret.value) = 1
  /\ Len(args.contributors) = 2
  /\ threshold = 85 * One

\* the maximum of the scores over variants(beneficiary) x variants(candidate)
MaxScore(cfg, fz, beneficiary, contributor) ==
  SetMax({calculate_similarity(cfg, fz, p[1], p[2]) : p \in VariantPairs(beneficiary, contributor)})

\* the Matches C4 expects: one per candidate whose maximum is at least the threshold,
\* with that maximum and the strings as they were passed
RECURSIVE ExpectedMatches(_, _, _, _, _)
ExpectedMatches(cfg, fz, beneficiary, contributors, thr) ==
  IF contributors = <<>> THEN <<>>
  ELSE (IF MaxScore(cfg, fz, beneficiary, Head(contributors)) >= thr
          THEN <<[beneficiary |-> beneficiary,
                  contributor |-> Head(contributors),
                  similarity  |-> MaxScore(cfg, fz, beneficiary, Head(contributors))]>>
          ELSE <<>>)
         \o ExpectedMatches(cfg, fz, beneficiary, Tail(contributors), thr)

\* C4 as the spec states it: for each candidate find_matches emits a Match if and only if
\* the maximum score over the variant pairs is at least the threshold, and the Match carries
\* that maximum and the original beneficiary and candidate strings.
MatchIffMaxClearsThreshold ==
  pc = "found" =>
    /\ ~ret.raised
    /\ [i \in 1..Len(ret.value) |->
          [beneficiary |-> ret.value[i].beneficiary,
           contributor |-> ret.value[i].contributor,
           similarity  |-> ret.value[i].similarity]]
         = ExpectedMatches(config, fuzz, args.beneficiary, args.contributors, threshold)

\* C8: a SimilarityConfig whose weights sum to more than 0.001 away from 1.0 fails at
\* construction, one within the tolerance is accepted, and the config a matcher scores
\* with is always within the tolerance.
WeightsCheckedAtConstruction ==
  /\ pc = "config_rejected" => Abs(WeightSum(args.cfg) - One) > Tolerance
  /\ pc = "matcher" => args.cfg = config /\ Abs(WeightSum(args.cfg) - One) <= Tolerance
  /\ pc \in {"matcher", "scored", "found"} => Abs(WeightSum(config) - One) <= Tolerance

\* a construction that failed on weights summing to 1.002
ConstructionFailed ==
  /\ pc = "config_rejected"
  /\ WeightSum(args.cfg) = One + 20

\* C10 as the spec states it: for every accepted config and all strings,
\* calculate_similarity lies in [0, 100] when the four metrics do.
ScoreWithinRange ==
  pc = "scored" => 0 <= ret /\ ret <= 100 * One

(***************************************************************************)
(* _aggregate_conflicts on any matches and any rows.                       *)
(***************************************************************************)
\* the matches of a run: a loaded beneficiary, a loaded contributor or employer
AggMatchChoices ==
  {NewMatch(b, c, 90 * One, "Cervantes") : b \in {Acme, Zed}, c \in {Acme, Zed}}

AggFinanceRowChoices ==
  {FinanceRow(c, e, a) : c \in {Acme, Zed}, e \in {None, Acme}, a \in {10, -5}}

AggMinutesRowChoices == {MinutesRow(Acme, "AYE", "PASSED"), MinutesRow(Zed, "YES", "PASSED")}

InitAgg ==
  /\ pc = "matched"
  /\ config = DefaultConfig
  /\ max_retries = DefaultMaxRetries
  /\ threshold = 85 * One
  /\ validate_with_ai = TRUE
  /\ minutes_data \in SeqsUpTo(AggMinutesRowChoices, MaxAggMinutesRows)
  /\ campaign_finance_data \in SeqsUpTo(AggFinanceRowChoices, MaxAggFinanceRows)
  /\ fuzz = NoFuzz
  /\ initial_matches \in SeqsUpTo(AggMatchChoices, MaxMatches)
  /\ aggregated_conflicts = <<>>
  /\ attempt = 0
  /\ api_log = <<>>
  /\ validation_results = <<>>
  /\ validated_conflicts = <<>>
  /\ result = <<>>
  /\ args = <<>>
  /\ ret = <<>>

NextAgg == AggregateConflicts

SpecAgg == InitAgg /\ [][NextAgg]_vars

\* C2: every AggregatedConflict the aggregator builds has contribution_count equal to the
\* length of contribution_details and total_contributions equal to the sum of their amounts.
AggregationConserves ==
  pc = "aggregated" =>
    \A k \in 1..Len(aggregated_conflicts) :
      /\ aggregated_conflicts[k].contribution_count
           = Len(aggregated_conflicts[k].contribution_details)
      /\ aggregated_conflicts[k].total_contributions
           = SumAmounts(aggregated_conflicts[k].contribution_details)

\* a conflict built from two contribution rows, one more row having been refused
ConflictWithTwoContributions ==
  /\ pc = "aggregated"
  /\ \E k \in 1..Len(aggregated_conflicts) :
       /\ Len(aggregated_conflicts[k].contribution_details) = 2
       /\ aggregated_conflicts[k].total_contributions = 20
  /\ \E i \in 1..Len(campaign_finance_data) : campaign_finance_data[i].Amount < 0

(***************************************************************************)
(* The validation stage on the conflicts of a run: the matcher has found   *)
(* every beneficiary's own name among the contributors, and the aggregator *)
(* has built one conflict per beneficiary.                                 *)
(***************************************************************************)
Rio == <<"R","i","o">>

ValidateNames == {Acme, Zed, Rio}

\* rapidfuzz on these names: 100 for equal strings, 0 otherwise
ExactFuzz ==
  [p \in FuzzDomain(ValidateNames, ValidateNames) |->
     IF p[1] = p[2] THEN <<100, 100, 100, 100>> ELSE <<0, 0, 0, 0>>]

InitValidate ==
  /\ pc = "aggregated"
  /\ config = DefaultConfig
  /\ max_retries \in RetryChoices
  /\ threshold = 85 * One
  /\ validate_with_ai \in BOOLEAN
  /\ minutes_data \in SeqsUpTo({MinutesRow(b, "AYE", "PASSED") : b \in ValidateNames},
                               MaxConflicts)
  /\ campaign_finance_data = <<FinanceRow(Acme, None, 10), FinanceRow(Zed, None, 10),
                               FinanceRow(Rio, None, 10)>>
  /\ fuzz = ExactFuzz
  /\ \E ord \in Orders(MatchBeneficiaries(minutes_data)) :
       initial_matches = _find_initial_matches(config, fuzz, ord, minutes_data,
                                               campaign_finance_data, threshold).value
  /\ \E ordB \in Orders({initial_matches[i].beneficiary : i \in 1..Len(initial_matches)}) :
     \E ordC \in Orders({initial_matches[i].contributor : i \in 1..Len(initial_matches)}) :
       aggregated_conflicts = _aggregate_conflicts(initial_matches, minutes_data,
                                                   campaign_finance_data, ordB, ordC).value
  /\ attempt = 0
  /\ api_log = <<>>
  /\ validation_results = <<>>
  /\ validated_conflicts = <<>>
  /\ result = <<>>
  /\ args = <<>>
  /\ ret = <<>>

NextValidate ==
  \/ StartValidation
  \/ SkipValidation
  \/ NoAttempt
  \/ ApiCallFails
  \/ ApiCallReturns
  \/ FilterConflicts
  \/ CreateResult

SpecValidate == InitValidate /\ [][NextValidate]_vars

\* the response text holds a valid verdict
ValidVerdict(response) ==
  /\ response.json = "ok"
  /\ response.fields
  /\ response.is_genuine \in {"true", "false"}
  /\ response.confidence \in {"high", "medium", "low"}
  /\ response.reasoning

\* the validator call failed on every attempt of the retry budget, or its response cannot
\* be parsed into a valid verdict
CallFailed(log) ==
  \/ log = <<>>
  \/ log[Len(log)].raised
  \/ ~log[Len(log)].raised /\ ~ValidVerdict(log[Len(log)].response)

\* the conflicts validation has finished with
Judged == 1..Len(validation_results)

RECURSIVE GenuineOnly(_, _)
GenuineOnly(conflicts, verdicts) ==
  IF conflicts = <<>> \/ verdicts = <<>> THEN <<>>
  ELSE (IF Head(verdicts).is_genuine THEN <<Head(conflicts)>> ELSE <<>>)
         \o GenuineOnly(Tail(conflicts), Tail(verdicts))

\* C7: the final conflict list is the subsequence of the aggregated conflicts whose verdict
\* is genuine, in the same order and with every field as aggregation produced it; without
\* validation it is the aggregated list itself.
ValidationOnlyDrops ==
  pc \in {"validated", "done"} =>
    /\ validated_conflicts =
         IF validate_with_ai /\ aggregated_conflicts # <<>>
           THEN GenuineOnly(aggregated_conflicts, validation_results)
           ELSE aggregated_conflicts
    /\ validate_with_ai /\ aggregated_conflicts # <<>> =>
         Len(validation_results) = Len(aggregated_conflicts)
    /\ pc = "done" => result.conflicts = validated_conflicts

\* a run in which validation dropped the first of two conflicts and kept the second
FirstConflictDropped ==
  /\ pc = "done"
  /\ Len(aggregated_conflicts) = 2
  /\ Len(validation_results) = 2
  /\ ~validation_results[1].is_genuine
  /\ validation_results[2].is_genuine
  /\ result.conflicts = <<aggregated_conflicts[2]>>

\* the raw name contains one of the exclusion terms, whatever the case of its letters
NamesExcludedTerm(name) ==
  \E term \in {<<"c","i","t","y"," ","o","f">>,
               <<"c","o","u","n","t","y"," ","o","f">>,
               <<"c","o","l","l","e","g","e">>,
               <<"u","n","i","v","e","r","s","i","t","y">>} :
    Contains(Lower(name), term)

NoneExcluded(conflicts) ==
  \A k \in 1..Len(conflicts) :
    /\ ~NamesExcludedTerm(conflicts[k].beneficiary)
    /\ \A j \in 1..Len(conflicts[k].original_beneficiaries) :
         ~NamesExcludedTerm(conflicts[k].original_beneficiaries[j])

\* C5: in every run, no Match and no AggregatedConflict names a beneficiary whose raw name
\* contains 'city of', 'county of', 'college' or 'university' in any case.
ExcludedBeneficiariesSkipped ==
  /\ \A i \in 1..Len(initial_matches) : ~NamesExcludedTerm(initial_matches[i].beneficiary)
  /\ NoneExcluded(aggregated_conflicts)
  /\ NoneExcluded(validated_conflicts)
  /\ pc = "done" => NoneExcluded(result.conflicts)

\* a finished run with a conflict, whose minutes also hold a row for an excluded beneficiary
RunWithExcludedRow ==
  /\ pc = "done"
  /\ result.conflicts # <<>>
  /\ \E i \in 1..Len(minutes_data) : NamesExcludedTerm(minutes_data[i].Beneficiary)

\* C9 as the spec states it: a threshold outside [0, 100] is rejected at startup, so
\* matching is never performed with one.
ThresholdRejectedAtStartup ==
  pc \in {"matched", "aggregated", "validating", "batch_done", "validated", "done"} =>
    0 <= threshold /\ threshold <= 100 * One

(***************************************************************************)
(* The two normalization pipelines and _get_entity_variants called on      *)
(* their own, on any short name and on the names of the scenarios.         *)
(***************************************************************************)
AthensServices == <<"A","t","h","e","n","s"," ","S","e","r","v","i","c","e","s">>

AthensServicesInc ==
  <<"A","t","h","e","n","s"," ","S","e","r","v","i","c","e","s",","," ","I","n","c",".">>

MaxNameLen == 3

NameChars == {"a", "b", " ", "/", "."}

\* names that hold a doing-business-as marker: at the end, or followed by another name
DbaMarkers == {<<"D","B","A">>, <<"a","k","a">>}

DbaNames == {Acme, Zed}

DbaInputs ==
  {n \o <<" ">> \o m : n \in DbaNames, m \in DbaMarkers}
    \cup {n \o <<" ">> \o m \o <<" ">> \o o : n \in DbaNames, m \in DbaMarkers, o \in DbaNames}

NormInputs ==
  SeqsUpTo(NameChars, MaxNameLen) \cup {AthensServices, AthensServicesInc} \cup DbaInputs

InitNorm ==
  /\ pc = "norm_call"
  /\ config = DefaultConfig
  /\ max_retries = DefaultMaxRetries
  /\ args \in NormInputs
  /\ Blank

\* FuzzyMatcher._normalize_entity(args)
NormalizeEntity ==
  /\ pc = "norm_call"
  /\ ret' = _normalize_entity(args)
  /\ pc' = "match_normalized"
  /\ UNCHANGED <<componentVars, dataVars, fuzz, initial_matches, aggregated_conflicts,
                 validationVars, validated_conflicts, result, args>>

\* FuzzyMatcher._normalize_entity called on what it returned
NormalizeEntityAgain ==
  /\ pc = "match_normalized"
  /\ args' = ret
  /\ ret' = _normalize_entity(ret)
  /\ pc' = "match_renormalized"
  /\ UNCHANGED <<componentVars, dataVars, fuzz, initial_matches, aggregated_conflicts,
                 validationVars, validated_conflicts, result>>

\* EntityNormalizer.normalize_entity_name(args)
NormalizeEntityName ==
  /\ pc = "norm_call"
  /\ ret' = normalize_entity_name(args)
  /\ pc' = "group_normalized"
  /\ UNCHANGED <<componentVars, dataVars, fuzz, initial_matches, aggregated_conflicts,
                 validationVars, validated_conflicts, result, args>>

\* EntityNormalizer.normalize_entity_name called on what it returned
NormalizeEntityNameAgain ==
  /\ pc = "group_normalized"
  /\ args' = ret
  /\ ret' = normalize_entity_name(ret)
  /\ pc' = "group_renormalized"
  /\ UNCHANGED <<componentVars, dataVars, fuzz, initial_matches, aggregated_conflicts,
                 validationVars, validated_conflicts, result>>

\* FuzzyMatcher._get_entity_variants(args)
GetEntityVariants ==
  /\ pc = "norm_call"
  /\ ret' = _get_entity_variants(args)
  /\ pc' = "variants_done"
  /\ UNCHANGED <<componentVars, dataVars, fuzz, initial_matches, aggregated_conflicts,
                 validationVars, validated_conflicts, result, args>>

NextNorm ==
  \/ NormalizeEntity
  \/ NormalizeEntityAgain
  \/ NormalizeEntityName
  \/ NormalizeEntityNameAgain
  \/ GetEntityVariants

SpecNorm == InitNorm /\ [][NextNorm]_vars

\* C11 as the spec states it: under the matching pipeline and under the grouping pipeline,
\* normalizing a normalized name gives that name back.
NormalizationIdempotent ==
  pc \in {"match_renormalized", "group_renormalized"} => ret = args

\* C12: the variant list of a raw name is not empty and has no duplicates; it holds the
\* matching-pipeline normal form of the whole name when that is not empty and, when the raw
\* name contains '/', the normal form of every '/'-delimited segment that is not empty; it
\* holds the empty string only as the one-element list [""].
VariantsWellFormed ==
  pc = "variants_done" =>
    /\ ret # <<>>
    /\ \A i \in 1..Len(ret) : \A j \in 1..Len(ret) : ret[i] = ret[j] => i = j
    /\ \A n \in {_normalize_entity(args)} : n # <<>> => n \in Range(ret)
    /\ Contains(args, <<"/">>) =>
         \A segment \in Range(SplitLit(args, <<"/">>)) :
           \A n \in {_normalize_entity_without_slash_handling(segment)} :
             n # <<>> => n \in Range(ret)
    /\ <<>> \in Range(ret) => ret = << <<>> >>

\* the variants of a name with two different segments: the whole name and each segment
VariantsOfSlashName ==
  /\ pc = "variants_done"
  /\ Contains(args, <<"/">>)
  /\ Len(ret) = 3

\* the canonical names of a list of groups, in order
CanonicalNames(groups) == [g \in 1..Len(groups) |-> groups[g].canonical_name]

\* C13: the canonical name of every group is one of its original_names, no name of the
\* group has a higher heuristic score, among the names with that score none is greater in
\* lexicographic order, and a second run of the grouper on the same input gives the same
\* canonical names.
CanonicalNameIsBestScored ==
  /\ pc \in {"group_done", "group_redone"} =>
       \A g \in 1..Len(ret) :
         /\ ret[g].canonical_name \in Range(ret[g].original_names)
         /\ \A n \in Range(ret[g].original_names) :
              \/ NameScore(n) < NameScore(ret[g].canonical_name)
              \/ /\ NameScore(n) = NameScore(ret[g].canonical_name)
                 /\ ~StrLess(ret[g].canonical_name, n)
  /\ pc = "group_redone" => CanonicalNames(ret) = CanonicalNames(result)

\* two runs over a group of three names, two of them with the highest score: the greater
\* of the two, 'Acme/Zed', is the canonical name
CanonicalTieBroken ==
  /\ pc = "group_redone"
  /\ args = <<AcmeInc, Acme, AcmeZed>>
  /\ Len(ret) = 1
  /\ NameScore(AcmeInc) = NameScore(AcmeZed)
  /\ ret[1].canonical_name = AcmeZed

(***************************************************************************)
(* The scenarios: find_matches on the two names of one union, and the      *)
(* matching and aggregation stages on two contribution rows that name 'X'. *)
(***************************************************************************)
Seiu721 == <<"S","E","I","U"," ","L","o","c","a","l"," ","7","2","1">>

ServiceEmployees721 ==
  <<"S","e","r","v","i","c","e"," ","E","m","p","l","o","y","e","e","s"," ","I","n","t","e","r","n","a","t","i","o","n","a","l"," ","U","n","i","o","n"," ","L","o","c","a","l"," ","7","2","1">>

X == <<"X">>

XFoundation == <<"X"," ","F","o","u","n","d","a","t","i","o","n">>

XFund == <<"X"," ","F","u","n","d">>

UnionCandidates == {ServiceEmployees721, Zed, Acme}

\* rapidfuzz on a set of pairs: any metrics, but 100 on every metric for two equal strings
RapidfuzzChoices(pairs) ==
  {fz \in [pairs -> MetricChoices] :
     \A p \in pairs : p[1] = p[2] => fz[p] = <<100, 100, 100, 100>>}

\* the two rows of the scenario, in either order
ScenarioFinance ==
  {<<FinanceRow(X, None, 1000), FinanceRow(XFund, X, 500)>>,
   <<FinanceRow(XFund, X, 500), FinanceRow(X, None, 1000)>>}

InitScenario ==
  \/ /\ pc = "matcher"
     /\ config = DefaultConfig
     /\ max_retries = DefaultMaxRetries
     /\ args = <<>>
     /\ Blank
  \/ /\ pc = "loaded"
     /\ config = DefaultConfig
     /\ max_retries = DefaultMaxRetries
     /\ threshold = 85 * One
     /\ validate_with_ai = TRUE
     /\ minutes_data \in {<<MinutesRow(XFoundation, vote, "PASSED")>> : vote \in {"AYE", "NAY"}}
     /\ campaign_finance_data \in ScenarioFinance
     /\ fuzz = NoFuzz
     /\ initial_matches = <<>>
     /\ aggregated_conflicts = <<>>
     /\ attempt = 0
     /\ api_log = <<>>
     /\ validation_results = <<>>
     /\ validated_conflicts = <<>>
     /\ result = <<>>
     /\ args = <<>>
     /\ ret = <<>>

\* find_matches('SEIU Local 721', contributors, threshold)
FindUnionMatches ==
  /\ pc = "matcher"
  /\ \E contributors \in SeqsUpTo(UnionCandidates, MaxCandidates) :
     \E fz \in RapidfuzzChoices(FuzzDomain({Seiu721}, Range(contributors))) :
       /\ args' = [beneficiary |-> Seiu721, contributors |-> contributors]
       /\ fuzz' = fz
       /\ threshold' \in ThresholdChoices
       /\ ret' = find_matches(config, fz, Seiu721, contributors, threshold', "Cervantes")
  /\ pc' = "found"
  /\ UNCHANGED <<componentVars, validate_with_ai, minutes_data, campaign_finance_data,
                 initial_matches, aggregated_conflicts, validationVars, validated_conflicts,
                 result>>

NextScenario ==
  \/ FindUnionMatches
  \/ FindInitialMatches
  \/ AggregateConflicts

SpecScenario == InitScenario /\ [][NextScenario]_vars

\* C14: at threshold 85, find_matches for 'SEIU Local 721' returns a Match for every
\* candidate 'Service Employees International Union Local 721', the two names having the
\* same matching-pipeline normal form.
UnionNamesMatch ==
  pc = "found" /\ threshold = 85 * One =>
    /\ _normalize_entity(Seiu721) = _normalize_entity(ServiceEmployees721)
    /\ ~ret.raised
    /\ \A i \in 1..Len(args.contributors) :
         args.contributors[i] = ServiceEmployees721 =>
           \E k \in 1..Len(ret.value) :
             /\ ret.value[k].beneficiary = Seiu721
             /\ ret.value[k].contributor = ServiceEmployees721
             /\ ret.value[k].similarity >= 85 * One

\* the call of the scenario has returned its one Match
UnionMatchReturned ==
  /\ pc = "found"
  /\ threshold = 85 * One
  /\ args.contributors = <<ServiceEmployees721>>
  /\ ~ret.raised
  /\ Len(ret.value) = 1

(***************************************************************************)
(* Scenario 3: the grouping normal form of the two Athens names.           *)
(***************************************************************************)
AthensNormalForm == <<"a","t","h","e","n","s"," ","s","e","r","v","i","c","e","s">>

\* C15: normalize_entity_name returns exactly 'athens services' for 'Athens Services' and
\* for 'Athens Services, Inc.'.
AthensKeepsServices ==
  pc = "group_normalized" /\ args \in {AthensServices, AthensServicesInc} =>
    ret = AthensNormalForm

(***************************************************************************)
(* A name and the same name followed by a business suffix, handed to the   *)
(* grouper and to the matching pipeline.                                   *)
(***************************************************************************)
LaborUnion == <<"L","a","b","o","r"," ","U","n","i","o","n">>

SuffixNames == {Acme, AthensServices, LaborUnion}

\* what stands between the name and the suffix
SuffixSeparators == {<<" ">>, <<",", " ">>}

InitSuffix ==
  /\ pc = "suffix_call"
  /\ config = DefaultConfig
  /\ max_retries = DefaultMaxRetries
  /\ \E n \in SuffixNames, sep \in SuffixSeparators, s \in BusinessSuffixes :
       args = [name |-> n, suffix |-> s, suffixed |-> n \o sep \o s]
  /\ Blank

\* group_related_entities([n, n + suffix])
GroupSuffixedPair ==
  /\ pc = "suffix_call"
  /\ ret' = group_related_entities(<<args.name, args.suffixed>>)
  /\ pc' = "suffix_grouped"
  /\ UNCHANGED <<componentVars, dataVars, fuzz, initial_matches, aggregated_conflicts,
                 validationVars, validated_conflicts, result, args>>

\* FuzzyMatcher._normalize_entity(n + suffix)
NormalizeSuffixed ==
  /\ pc = "suffix_call"
  /\ ret' = _normalize_entity(args.suffixed)
  /\ pc' = "suffix_matched"
  /\ UNCHANGED <<componentVars, dataVars, fuzz, initial_matches, aggregated_conflicts,
                 validationVars, validated_conflicts, result, args>>

NextSuffix ==
  \/ GroupSuffixedPair
  \/ NormalizeSuffixed

SpecSuffix == InitSuffix /\ [][NextSuffix]_vars

\* the name and the suffixed name are original names of one group
GroupedTogether(groups, a, b) ==
  \E g \in 1..Len(groups) : {a, b} \subseteq Range(groups[g].original_names)

\* C16: the grouper puts a name and the name followed by a business suffix in one group,
\* and the matching normal form of the suffixed name still contains the suffix word (the
\* suffix without the punctuation the matching pipeline removes everywhere).
SuffixInsensitiveClustering ==
  /\ pc = "suffix_grouped" => GroupedTogether(ret, args.name, args.suffixed)
  /\ pc = "suffix_matched" => Contains(ret, SelectSeq(args.suffix, MatchKeepChar))

(***************************************************************************)
(* Scenario 4: the rows an AggregatedConflict pulls.                       *)
(***************************************************************************)
\* the rows of finance that ContributionDetail accepts and whose Contributor or Employer is
\* one of the contributors, each row once, as contribution details
PullableRows(finance, contributors) ==
  LET pullable == SelectSeq(finance,
                    LAMBDA row : /\ ~ContributionRejected(row)
                                 /\ \E c \in Range(contributors) : RowMatches(row, c))
  IN [i \in 1..Len(pullable) |-> NewContribution(pullable[i])]

\* the two sequences hold the same elements the same number of times
SameBag(a, b) == \A x \in Range(a) \cup Range(b) : Count(a, x) = Count(b, x)

MaxOrderRows == 3

OrderMatchChoices ==
  {NewMatch(Acme, Acme, 95 * One, "Cervantes"),
   NewMatch(AcmeInc, Zed, 90 * One, "Cervantes"),
   NewMatch(Dash, Zed, 85 * One, "Cervantes")}

\* the sequences with the elements of seq in any order
PermutationsOf(seq) ==
  {[i \in 1..Len(seq) |-> seq[p[i]]] : p \in Permutations(1..Len(seq))}

\* n contribution rows of 'Acme': one amount at the edge of the exact range, the others small
OrderFinanceRows(n) ==
  [i \in 1..n |-> FinanceRow(Acme, None, IF i = 1 THEN 2 ^ MantissaBits ELSE 1)]

\* n vote rows, of 'Acme' and of '-' in turn
OrderMinutesRows(n) ==
  [i \in 1..n |-> IF i % 2 = 1 THEN MinutesRow(Acme, "AYE", "PASSED")
                                ELSE MinutesRow(Dash, "NAY", "PASSED")]

InitOrder ==
  /\ pc = "matched"
  /\ config = DefaultConfig
  /\ max_retries = DefaultMaxRetries
  /\ threshold = 85 * One
  /\ validate_with_ai = TRUE
  /\ minutes_data \in UNION {PermutationsOf(OrderMinutesRows(n)) : n \in 0..MaxMinutesRows}
  /\ campaign_finance_data \in UNION {PermutationsOf(OrderFinanceRows(n)) : n \in 0..MaxOrderRows}
  /\ fuzz = NoFuzz
  /\ initial_matches \in SeqsUpTo(OrderMatchChoices, MaxMatches)
  /\ aggregated_conflicts = <<>>
  /\ attempt = 0
  /\ api_log = <<>>
  /\ validation_results = <<>>
  /\ validated_conflicts = <<>>
  /\ result = <<>>
  /\ args = <<>>
  /\ ret = <<>>

\* the three inputs with one of them permuted
PermutedInputs ==
  {[permuted |-> "matches", matches |-> pm, minutes |-> minutes_data,
    finance |-> campaign_finance_data] : pm \in PermutationsOf(initial_matches)}
  \cup {[permuted |-> "finance", matches |-> initial_matches, minutes |-> minutes_data,
         finance |-> pf] : pf \in PermutationsOf(campaign_finance_data)}
  \cup {[permuted |-> "minutes", matches |-> initial_matches, minutes |-> pv,
         finance |-> campaign_finance_data] : pv \in PermutationsOf(minutes_data)}

\* _aggregate_conflicts called again, one of its inputs in another order
AggregatePermuted ==
  /\ pc = "aggregated"
  /\ \E in \in PermutedInputs :
     \E ordB \in Orders({initial_matches[i].beneficiary : i \in 1..Len(initial_matches)}) :
     \E ordC \in Orders({initial_matches[i].contributor : i \in 1..Len(initial_matches)}) :
          /\ args' = in.permuted
          /\ ret' = _aggregate_conflicts(in.matches, in.minutes, in.finance, ordB, ordC)
  /\ pc' = "reaggregated"
  /\ UNCHANGED <<componentVars, dataVars, fuzz, initial_matches, aggregated_conflicts,
                 validationVars, validated_conflicts, result>>

NextOrder ==
  \/ AggregateConflicts
  \/ AggregatePermuted

SpecOrder == InitOrder /\ [][NextOrder]_vars

\* the conflicts whose original_beneficiaries hold the beneficiary
ConflictsHolding(conflicts, beneficiary) ==
  {k \in 1..Len(conflicts) : beneficiary \in Range(conflicts[k].original_beneficiaries)}

\* how many of the matches the conflicts hold, a match held by two conflicts counted twice
RECURSIVE MatchesCounted(_, _)
MatchesCounted(conflicts, matches) ==
  IF conflicts = <<>> THEN 0
  ELSE Len(SelectSeq(matches, LAMBDA m :
             /\ m.beneficiary \in Range(Head(conflicts).original_beneficiaries)
             /\ m.contributor \in Range(Head(conflicts).contributors)))
       + MatchesCounted(Tail(conflicts), matches)

\* C18: every Match is counted in exactly one AggregatedConflict, every beneficiary of a
\* Match is among the original_beneficiaries of exactly one AggregatedConflict, which also
\* holds the contributor of the Match, and no two AggregatedConflicts have the same
\* canonical beneficiary name; a non-empty match list gives at least one conflict.
AggregationLossFree ==
  pc = "aggregated" =>
    /\ MatchesCounted(aggregated_conflicts, initial_matches) = Len(initial_matches)
    /\ initial_matches # <<>> => aggregated_conflicts # <<>>
    /\ \A i \in 1..Len(initial_matches) :
         /\ Cardinality(ConflictsHolding(aggregated_conflicts, initial_matches[i].beneficiary)) = 1
         /\ \A k \in ConflictsHolding(aggregated_conflicts, initial_matches[i].beneficiary) :
              initial_matches[i].contributor \in Range(aggregated_conflicts[k].contributors)
    /\ \A j, k \in 1..Len(aggregated_conflicts) :
         aggregated_conflicts[j].beneficiary = aggregated_conflicts[k].beneficiary => j = k

\* a beneficiary the grouper files under no key has a conflict of its own, next to the
\* conflict of a grouped beneficiary
UngroupedBeneficiaryAggregated ==
  /\ pc = "aggregated"
  /\ Len(initial_matches) = 2
  /\ Len(aggregated_conflicts) = 2
  /\ \E k \in 1..2 :
       /\ aggregated_conflicts[k].beneficiary = Dash
       /\ aggregated_conflicts[k].original_beneficiaries = <<Dash>>
  /\ \E k \in 1..2 : AcmeInc \in Range(aggregated_conflicts[k].original_beneficiaries)

\* what the claim compares of one AggregatedConflict
Summary(conflict) ==
  [beneficiary            |-> conflict.beneficiary,
   original_beneficiaries |-> Range(conflict.original_beneficiaries),
   contributors           |-> Range(conflict.contributors),
   total_contributions    |-> conflict.total_contributions,
   contribution_count     |-> conflict.contribution_count,
   vote_count             |-> conflict.vote_count,
   max_similarity         |-> conflict.max_similarity,
   min_similarity         |-> conflict.min_similarity]

Summaries(conflicts) == {Summary(conflicts[k]) : k \in 1..Len(conflicts)}

\* C19: _aggregate_conflicts on the match list, the contribution rows or the vote rows in
\* another order returns the same number of conflicts, with the same canonical
\* beneficiary, sets of original beneficiaries and contributors, total_contributions,
\* contribution_count, vote_count, max_similarity and min_similarity.
AggregationOrderIndependent ==
  pc = "reaggregated" =>
    /\ ~ret.raised
    /\ Len(ret.value) = Len(aggregated_conflicts)
    /\ Summaries(ret.value) = Summaries(aggregated_conflicts)

(***************************************************************************)
(* The run totals of the AnalysisResult.                                   *)
(***************************************************************************)
\* the total_contributions of conflicts 1..n, added up in list order
RECURSIVE TotalOfFirst(_, _)
TotalOfFirst(conflicts, n) ==
  IF n = 0 THEN 0
  ELSE FloatAdd(TotalOfFirst(conflicts, n - 1), conflicts[n].total_contributions)

\* C20: in the AnalysisResult analyze_conflicts returns, conflicts is the final
\* (post-validation) list, total_conflicts is its length and total_contribution_amount is
\* the sum of the total_contributions of exactly its conflicts.
RunTotalsConsistent ==
  pc = "done" =>
    /\ result.conflicts = validated_conflicts
    /\ result.total_conflicts = Len(result.conflicts)
    /\ result.total_contribution_amount = TotalOfFirst(result.conflicts, Len(result.conflicts))

\* a run in which the validator dropped one of two conflicts: the totals are those of the
\* one conflict left
DroppedConflictNotCounted ==
  /\ pc = "done"
  /\ Len(aggregated_conflicts) = 2
  /\ Len(result.conflicts) = 1
  /\ result.total_conflicts = 1
  /\ result.total_contribution_amount = result.conflicts[1].total_contributions
  /\ result.total_contribution_amount
       < aggregated_conflicts[1].total_contributions + aggregated_conflicts[2].total_contributions

\* how many matched contributor strings of the conflict the row carries, as its
\* Contributor or as its Employer
MatchPaths(row, contributors) ==
  Cardinality({i \in 1..Len(contributors) :
                 row.Contributor = contributors[i] \/ row.Employer = contributors[i]})

\* the amounts of the accepted rows, each once per match path
RECURSIVE PathTotal(_, _)
PathTotal(finance, contributors) ==
  IF finance = <<>> THEN 0
  ELSE (IF Head(finance).Amount < 0 THEN 0
        ELSE Head(finance).Amount * MatchPaths(Head(finance), contributors))
       + PathTotal(Tail(finance), contributors)

\* C21: a contribution row is pulled once per matched contributor string it carries: a row
\* whose Contributor is one matched string of the conflict and whose Employer is another is in
\* contribution_details twice and is summed twice, a row matched by one string is there once.
RowsPulledOncePerMatchPath ==
  pc = "aggregated" =>
    \A k \in 1..Len(aggregated_conflicts) :
      /\ \A i \in 1..Len(campaign_finance_data) :
           campaign_finance_data[i].Amount >= 0 =>
             Count(aggregated_conflicts[k].contribution_details,
                   NewContribution(campaign_finance_data[i]))
               = Count(campaign_finance_data, campaign_finance_data[i])
                   * MatchPaths(campaign_finance_data[i], aggregated_conflicts[k].contributors)
      /\ aggregated_conflicts[k].total_contributions
           = PathTotal(campaign_finance_data, aggregated_conflicts[k].contributors)

\* one row with Contributor 'Zed' and Employer 'Acme', both matched strings of one conflict:
\* the row is there twice and the total is twice its amount
RowPulledTwice ==
  /\ pc = "aggregated"
  /\ Len(campaign_finance_data) = 1
  /\ campaign_finance_data[1] = FinanceRow(Zed, Acme, 10)
  /\ \E k \in 1..Len(aggregated_conflicts) :
       /\ Len(aggregated_conflicts[k].contributors) = 2
       /\ Len(aggregated_conflicts[k].contribution_details) = 2
       /\ aggregated_conflicts[k].total_contributions = 20

\* C22 as the spec states it: under both pipelines a name with a DBA marker normalizes to
\* the trimmed text that follows the marker, and a name that ends in the marker keeps its
\* own text, so that it never normalizes to the empty string.
DbaRemainderOrOriginal ==
  pc \in {"match_normalized", "group_normalized"} =>
    \A n \in DbaNames : \A m \in DbaMarkers :
      /\ args = n \o <<" ">> \o m => ret = Lower(args)
      /\ \A o \in DbaNames : args = n \o <<" ">> \o m \o <<" ">> \o o => ret = Lower(o)

\* the grouping pipeline keeps 'Acme DBA' as 'acme dba'
GroupingKeepsDbaName ==
  /\ pc = "group_normalized"
  /\ args = Acme \o <<" ","D","B","A">>
  /\ ret = <<"a","c","m","e"," ","d","b","a">>

\* C23 as the spec states it: under both pipelines the normalized name has no leading or
\* trailing whitespace, no two whitespace characters in a row, and neither begins nor ends
\* with a character that is neither a word character nor whitespace.
NormalFormIsClean ==
  pc \in {"match_normalized", "group_normalized"} /\ ret # <<>> =>
    /\ IsWord(ret[1])
    /\ IsWord(ret[Len(ret)])
    /\ \A i \in 1..(Len(ret) - 1) : ~(IsSpace(ret[i]) /\ IsSpace(ret[i + 1]))

\* the grouping pipeline strips the blank and the full stop around 'b'
EdgesCleaned ==
  /\ pc = "group_normalized"
  /\ args = <<" ", "b", ".">>
  /\ ret = <<"b">>

(***************************************************************************)
(* Vote rows with values outside VoteType and VoteOutcome, handed to the   *)
(* aggregator and to ConflictDataProcessor.create_vote_details             *)
(* (processors.py).                                                        *)
(***************************************************************************)
\* a cell that _clean_minutes_data has set to None
NoValue == "None"

\* str.upper on the Vote and Outcome values of the rows
UpperValue(s) ==
  CASE s = "nay" -> "NAY"
    [] s = "failed" -> "FAILED"
    [] OTHER -> s

\* "VoteType(vote_str) if vote_str in [v.value for v in VoteType] else VoteType.AYE"
VoteTypeOr(vote_str) == IF vote_str \in VoteTypes THEN vote_str ELSE "AYE"

\* "VoteOutcome(outcome_str) if outcome_str in [...] else VoteOutcome.PASSED"
VoteOutcomeOr(outcome_str) == IF outcome_str \in VoteOutcomes THEN outcome_str ELSE "PASSED"

\* None.upper(): an AttributeError, which "except (ValueError, TypeError)" lets through
VoteRowRaises(row) == row.Vote = NoValue \/ row.Outcome = NoValue

\* VoteDetail.__post_init__ raises ValueError: the row is skipped
VoteDetailRejected(row) == row.Item = "" \/ Strip(row.Beneficiary) = <<>>

CreatedVote(row) ==
  [vote        |-> VoteTypeOr(UpperValue(row.Vote)),
   item        |-> row.Item,
   outcome     |-> VoteOutcomeOr(UpperValue(row.Outcome)),
   beneficiary |-> Strip(row.Beneficiary)]

create_vote_details(minutes) ==
  IF \E i \in 1..Len(minutes) : VoteRowRaises(minutes[i]) THEN Raised
  ELSE LET kept == SelectSeq(minutes, LAMBDA row : ~VoteDetailRejected(row))
       IN Returned([i \in 1..Len(kept) |-> CreatedVote(kept[i])])

MaxVoteRows == 2

VoteRowChoices ==
  {MinutesRow(b, v, o) : b \in {Acme, BlankName}, v \in {"AYE", "YES", "nay"},
                         o \in {"PASSED", "TABLED", NoValue}}

InitVotes ==
  /\ pc = "matched"
  /\ config = DefaultConfig
  /\ max_retries = DefaultMaxRetries
  /\ threshold = 85 * One
  /\ validate_with_ai = TRUE
  /\ minutes_data \in SeqsUpTo(VoteRowChoices, MaxVoteRows)
  /\ campaign_finance_data = <<>>
  /\ fuzz = NoFuzz
  /\ initial_matches = <<NewMatch(Acme, Acme, 90 * One, "Cervantes")>>
  /\ aggregated_conflicts = <<>>
  /\ attempt = 0
  /\ api_log = <<>>
  /\ validation_results = <<>>
  /\ validated_conflicts = <<>>
  /\ result = <<>>
  /\ args = <<>>
  /\ ret = <<>>

\* ConflictDataProcessor.create_vote_details(minutes_data)
CreateVoteDetails ==
  /\ pc = "matched"
  /\ ret' = create_vote_details(minutes_data)
  /\ pc' = "votes_created"
  /\ UNCHANGED <<componentVars, dataVars, fuzz, initial_matches, aggregated_conflicts,
                 validationVars, validated_conflicts, result, args>>

NextVotes == AggregateConflicts \/ CreateVoteDetails

SpecVotes == InitVotes /\ [][NextVotes]_vars

\* the rows of a beneficiary whose vote and outcome are values of VoteType and VoteOutcome,
\* the letter case set aside or not
RecognizedRows(minutes, beneficiaries, anycase) ==
  SelectSeq(minutes, LAMBDA row :
    /\ Strip(row.Beneficiary) \in beneficiaries
    /\ (IF anycase THEN UpperValue(row.Vote) ELSE row.Vote) \in VoteTypes
    /\ (IF anycase THEN UpperValue(row.Outcome) ELSE row.Outcome) \in VoteOutcomes)

\* C24 as the spec states it: a vote row with an unrecognized vote or outcome yields no
\* VoteDetail, nothing is put in its place, every other row yields its VoteDetail, and no
\* exception leaves the aggregator or create_vote_details.
UnrecognizedVoteRowsSkipped ==
  /\ pc # "failed"
  /\ pc = "aggregated" =>
       \A k \in 1..Len(aggregated_conflicts) :
         \E rows \in {RecognizedRows(minutes_data,
                        Range(aggregated_conflicts[k].original_beneficiaries), FALSE)} :
           aggregated_conflicts[k].vote_details
             = [i \in 1..Len(rows) |-> NewVote(rows[i], rows[i].Beneficiary)]
  /\ pc = "votes_created" =>
       /\ ~ret.raised
       /\ \E rows \in {RecognizedRows(minutes_data, {Acme}, TRUE)} :
            ret.value = [i \in 1..Len(rows) |->
                           [vote |-> UpperValue(rows[i].Vote), item |-> rows[i].Item,
                            outcome |-> UpperValue(rows[i].Outcome),
                            beneficiary |-> Strip(rows[i].Beneficiary)]]

\* the aggregator skips a row whose vote is 'YES' and keeps the row after it
AggregatorSkipsVoteRow ==
  /\ pc = "aggregated"
  /\ Len(minutes_data) = 2
  /\ minutes_data[1].Vote = "YES"
  /\ Len(aggregated_conflicts) = 1
  /\ aggregated_conflicts[1].vote_count = 1

(***************************************************************************)
(* The aggregator on contribution rows of one matched contributor, with    *)
(* the amounts float() can make of a cell.                                 *)
(***************************************************************************)
MaxAmountRows == 3

AmountChoices == {10, 0, -5, NaN}

InitAmounts ==
  /\ pc = "matched"
  /\ config = DefaultConfig
  /\ max_retries = DefaultMaxRetries
  /\ threshold = 85 * One
  /\ validate_with_ai = TRUE
  /\ minutes_data = <<>>
  /\ campaign_finance_data
       \in SeqsUpTo({FinanceRow(Acme, None, a) : a \in AmountChoices}, MaxAmountRows)
  /\ fuzz = NoFuzz
  /\ initial_matches = <<NewMatch(Acme, Acme, 90 * One, "Cervantes")>>
  /\ aggregated_conflicts = <<>>
  /\ attempt = 0
  /\ api_log = <<>>
  /\ validation_results = <<>>
  /\ validated_conflicts = <<>>
  /\ result = <<>>
  /\ args = <<>>
  /\ ret = <<>>

NextAmounts == AggregateConflicts

SpecAmounts == InitAmounts /\ [][NextAmounts]_vars

\* x >= 0 on floats
NonNegative(x) == x # NaN /\ x >= 0

\* C25 as the spec states it: every amount in contribution_details is >= 0,
\* total_contributions is >= 0, and a matched row with a negative amount is left out of the
\* details and the count without aborting the aggregation.
TotalsNonNegative ==
  /\ pc # "failed"
  /\ pc = "aggregated" =>
       \A k \in 1..Len(aggregated_conflicts) :
         /\ \A i \in 1..Len(aggregated_conflicts[k].contribution_details) :
              NonNegative(aggregated_conflicts[k].contribution_details[i].amount)
         /\ NonNegative(aggregated_conflicts[k].total_contributions)
         /\ aggregated_conflicts[k].contribution_count
              = Len(SelectSeq(campaign_finance_data, LAMBDA row : ~FloatLess(row.Amount, 0)))

\* a row with amount -5 before a row with amount 10: one detail, total 10
NegativeRowSkipped ==
  /\ pc = "aggregated"
  /\ Len(campaign_finance_data) = 2
  /\ campaign_finance_data[1].Amount = -5
  /\ campaign_finance_data[2].Amount = 10
  /\ aggregated_conflicts[1].contribution_count = 1
  /\ aggregated_conflicts[1].total_contributions = 10

\* every call of client.messages.create returns or raises, and the loops of the validator
\* go on from there
SpecValidateFair == SpecValidate /\ WF_vars(NextValidate)

\* the attempts made for each conflict so far: at most max_retries, none after one that
\* returned; a conflict that has its verdict has the parsed answer of its last attempt or,
\* when max_retries attempts have failed (or none could be made), the fail-open verdict;
\* once the batch is done there is one verdict per conflict, in the order of the conflicts
RetryBounded ==
  pc \in {"validating", "batch_done"} =>
    /\ Len(api_log) <= Len(aggregated_conflicts)
    /\ Len(validation_results) = (IF pc = "batch_done" THEN Len(aggregated_conflicts)
                                                      ELSE Len(api_log) - 1)
    /\ \A c \in 1..Len(api_log) :
         /\ Len(api_log[c]) <= max_retries
         /\ \A i \in 1..(Len(api_log[c]) - 1) : api_log[c][i].raised
         /\ c <= Len(validation_results) =>
              IF api_log[c] # <<>> /\ ~api_log[c][Len(api_log[c])].raised
                THEN validation_results[c]
                       = _parse_validation_response(api_log[c][Len(api_log[c])].response)
                ELSE /\ Len(api_log[c]) = max_retries
                     /\ validation_results[c] = FailOpen

\* C26: the validator makes at most max_retries attempts for a conflict, none after the
\* first that succeeds, gives the fail-open verdict after max_retries failures, and for any
\* max_retries >= 0 the batch ends with one verdict per conflict, in input order.
BoundedRetryTerminates == []RetryBounded /\ ((pc = "validating") ~> (pc = "batch_done"))

\* a batch of two conflicts is done: max_retries failed attempts for the first, a failed
\* attempt and then an answer for the second
RetriesExhaustedThenAnswered ==
  /\ pc = "batch_done"
  /\ max_retries = DefaultMaxRetries
  /\ Len(api_log) = 2
  /\ Len(api_log[1]) = max_retries
  /\ api_log[1][max_retries].raised
  /\ Len(api_log[2]) = 2
  /\ ~api_log[2][2].raised

(***************************************************************************)
(* The similarity statistics of a conflict built from up to three matches  *)
(* of one beneficiary.                                                     *)
(***************************************************************************)
MaxStatMatches == 3

\* similarities the matcher lets through at threshold 85: 85.0, 90.0, 99.9002, 100.0
StatSimilarities == {85 * One, 90 * One, 999002, 100 * One}

StatContributors == <<Acme, AcmeInc, Zed>>

InitStats ==
  /\ pc = "matched"
  /\ config = DefaultConfig
  /\ max_retries = DefaultMaxRetries
  /\ threshold = 85 * One
  /\ validate_with_ai = TRUE
  /\ minutes_data = <<>>
  /\ campaign_finance_data = <<>>
  /\ fuzz = NoFuzz
  /\ \E n \in 0..MaxStatMatches : \E sims \in [1..n -> StatSimilarities] :
       initial_matches = [i \in 1..n |-> NewMatch(Acme, StatContributors[i], sims[i], "Cervantes")]
  /\ aggregated_conflicts = <<>>
  /\ attempt = 0
  /\ api_log = <<>>
  /\ validation_results = <<>>
  /\ validated_conflicts = <<>>
  /\ result = <<>>
  /\ args = <<>>
  /\ ret = <<>>

NextStats == AggregateConflicts

SpecStats == InitStats /\ [][NextStats]_vars

\* C27 as the spec states it: in every AggregatedConflict min_similarity <= avg_similarity
\* <= max_similarity, the three lie in [0, 100], and min_similarity is at least the
\* threshold of the run.
SimilarityStatsOrdered ==
  /\ pc # "failed"
  /\ pc = "aggregated" =>
       \A k \in 1..Len(aggregated_conflicts) :
         /\ aggregated_conflicts[k].min_similarity <= aggregated_conflicts[k].avg_similarity
         /\ aggregated_conflicts[k].avg_similarity <= aggregated_conflicts[k].max_similarity
         /\ 0 <= aggregated_conflicts[k].min_similarity
         /\ aggregated_conflicts[k].max_similarity <= 100 * One
         /\ aggregated_conflicts[k].min_similarity >= threshold

\* matches of 85.0 and 100.0: minimum 85.0, average 92.5, maximum 100.0
StatsOfTwoMatches ==
  /\ pc = "aggregated"
  /\ Len(initial_matches) = 2
  /\ aggregated_conflicts[1].min_similarity = 85 * One
  /\ aggregated_conflicts[1].avg_similarity = 925000
  /\ aggregated_conflicts[1].max_similarity = 100 * One

\* the names in the Contributor and Employer columns
CandidatePool(finance) ==
  {finance[i].Contributor : i \in 1..Len(finance)}
    \cup ({finance[i].Employer : i \in 1..Len(finance)} \ {None})

\* C28 as the spec states it: the candidates matched against a beneficiary are the distinct
\* contributor and employer names of the contribution data, so the matches of a run hold no
\* (beneficiary, candidate) pair twice, however many rows carry the name.
OneMatchPerPair ==
  pc = "matched" =>
    /\ \A i \in 1..Len(initial_matches) :
         initial_matches[i].contributor \in CandidatePool(campaign_finance_data)
    /\ \A i, j \in 1..Len(initial_matches) :
         (/\ initial_matches[i].beneficiary = initial_matches[j].beneficiary
          /\ initial_matches[i].contributor = initial_matches[j].contributor) => i = j

\* an employer name is a candidate: the one match of the run is with the Employer of a row
\* whose Contributor does not match
EmployerNameMatched ==
  /\ pc = "matched"
  /\ Len(initial_matches) = 1
  /\ Len(campaign_finance_data) = 1
  /\ initial_matches[1].contributor = campaign_finance_data[1].Employer
  /\ initial_matches[1].contributor # campaign_finance_data[1].Contributor

\* what each stage has produced, where analyze_conflicts stands
StagesInOrder ==
  /\ pc \in {"start", "loaded"} => initial_matches = <<>>
  /\ pc \in {"start", "loaded", "matched"} => aggregated_conflicts = <<>> /\ api_log = <<>>
  /\ \A k \in 1..Len(aggregated_conflicts) :
       Range(aggregated_conflicts[k].original_beneficiaries)
         \subseteq {initial_matches[i].beneficiary : i \in 1..Len(initial_matches)}
  /\ api_log # <<>> =>
       /\ validate_with_ai
       /\ aggregated_conflicts # <<>>
       /\ Len(api_log) <= Len(aggregated_conflicts)
       /\ Len(validation_results) <= Len(aggregated_conflicts)
  /\ pc \in {"validated", "done"} /\ ~(validate_with_ai /\ aggregated_conflicts # <<>>) =>
       /\ api_log = <<>>
       /\ validated_conflicts = aggregated_conflicts

\* a stage's product changes only at that stage
StageSteps ==
  /\ initial_matches' # initial_matches => pc = "loaded"
  /\ aggregated_conflicts' # aggregated_conflicts => pc = "matched"
  /\ api_log' # api_log => pc \in {"aggregated", "validating"}
  /\ validation_results' # validation_results => pc = "validating"
  /\ validated_conflicts' # validated_conflicts => pc \in {"aggregated", "batch_done"}

\* C29: in analyze_conflicts the grouper sees only beneficiaries of matches already made,
\* aggregation comes after it, the validator is called only once aggregation is over and
\* at most once per aggregated conflict, and it is not called at all when validate_with_ai
\* is false or there is no conflict, in which case the final list is the aggregated list.
StageOrdering == []StagesInOrder /\ [][StageSteps]_vars

\* a run without validation has ended with the conflicts of the aggregator
RunWithoutValidation ==
  /\ pc = "done"
  /\ ~validate_with_ai
  /\ aggregated_conflicts # <<>>
  /\ api_log = <<>>
  /\ result.conflicts = aggregated_conflicts

\* C30: every match of a run has match kind NAME, also when its candidate comes from the
\* Employer column, so the match_types of every AggregatedConflict, aggregated or in the
\* result, is exactly {NAME} and EMPLOYER occurs nowhere.
MatchKindAlwaysName ==
  /\ \A i \in 1..Len(initial_matches) : initial_matches[i].match_type = "name"
  /\ \A k \in 1..Len(aggregated_conflicts) : aggregated_conflicts[k].match_types = {"name"}
  /\ \A k \in 1..Len(validated_conflicts) : validated_conflicts[k].match_types = {"name"}
  /\ pc = "done" =>
       \A k \in 1..Len(result.conflicts) : result.conflicts[k].match_types = {"name"}

\* a conflict whose only contributor string is the Employer of a row with another
\* Contributor
EmployerMatchAggregated ==
  /\ pc = "aggregated"
  /\ Len(campaign_finance_data) = 1
  /\ Len(aggregated_conflicts) = 1
  /\ aggregated_conflicts[1].contributors = <<campaign_finance_data[1].Employer>>
  /\ campaign_finance_data[1].Employer # campaign_finance_data[1].Contributor
  /\ aggregated_conflicts[1].match_types = {"name"}

====
